---- MODULE Spec2Model ----
(***************************************************************************)
(* Inbound federation core of lemmy: the community inbox                   *)
(* (crates/apub/src/inbox/community_inbox.rs) together with the API calls  *)
(* that write the same tables (crates/api/src/community.rs).               *)
(*                                                                         *)
(* Every `.await` of the source is a suspension point, so every handler is *)
(* a process whose program counter advances by one storage or network call *)
(* per step; the synchronous code between two awaits belongs to the step   *)
(* of the await that precedes it.                                          *)
(***************************************************************************)
EXTENDS Integers, FiniteSets, Sequences, TLC

\* ---------------------------------------------------------------- bounds
NumDeliveries == 2
NumActivityIds == 2
NumPersons == 2
NumCommunities == 2
NumCalls == 2
NumPosts == 1
NumComments == 2
NumMembers == 3

Deliveries == 1..NumDeliveries
ActivityIds == 1..NumActivityIds
Persons == 1..NumPersons
CommunityIds == 1..NumCommunities
Calls == 1..NumCalls
PostIds == 1..NumPosts
CommentIds == 1..NumComments
\* the persons that moderate, or ask for, a community in TransferCommunity
Members == 1..NumMembers

\* persons of other nodes (the odd ones) and persons of this node
RemotePersons == {p \in Persons : p % 2 = 1}
LocalPersons == Persons \ RemotePersons

\* ------------------------------------------------------- wire vocabulary
\* enum CommunityValidTypes
CommunityValidTypes ==
  {"Follow", "Undo", "Create", "Update", "Like", "Dislike", "Delete", "Remove"}

\* the kinds of activity an Undo wraps; handle_undo tells Follow from the rest
InnerKinds == {"Follow", "Like", "Delete", "Remove"}

NoEnvelope == [kind |-> "None"]

\* An envelope, as far as community_inbox looks at it.  `to`: the
\* communities whose actor id is in to/cc; `object`: the community a
\* Follow's object names (0: none of this node's, or no Follow); `public`:
\* to/cc contains the public collection; `local_id`: the id is one of this
\* node's; `domains_valid`: actor and id agree on their domain.  An
\* activity is addressed to one community, and at most one of the three
\* flags is off in an envelope.
AllEnvelopes ==
  [kind : CommunityValidTypes, inner : InnerKinds \cup {"None"},
   actor : RemotePersons, to : {{c} : c \in CommunityIds},
   object : CommunityIds \cup {0},
   public : BOOLEAN, local_id : BOOLEAN, domains_valid : BOOLEAN]

Defects(e) ==
  (IF e.public THEN 0 ELSE 1) + (IF e.local_id THEN 1 ELSE 0)
  + (IF e.domains_valid THEN 0 ELSE 1)

Envelopes ==
  {e \in AllEnvelopes :
     /\ (e.kind = "Undo") <=> (e.inner # "None")
     /\ (e.kind # "Follow") => (e.object = 0)
     /\ Defects(e) <= 1}

\* the envelopes a well-behaved remote node sends: a Follow names the
\* community it is addressed to
SoundEnvelopes ==
  {e \in Envelopes :
     Defects(e) = 0 /\ ((e.kind = "Follow") => (e.to = {e.object}))}

\* ------------------------------------------------------------------ state
VARIABLES
  activity,              \* table activity: number of rows per ap_id
  person,                \* table person: the actor rows that exist
  site_banned,           \* person.banned
  community,             \* table community
  community_follower,    \* table community_follower: rows per (c, p, pending)
  community_person_ban,  \* table community_person_ban
  community_moderator,   \* table community_moderator
  accepts,               \* Accept activities sent, per Follow activity id
  announces,             \* send_announce invocations, per activity id
  content,               \* post/comment/vote mutations, per activity id
  envelope,              \* the activity minted under each id
  act,                   \* per delivery: the id of the activity delivered
  path,                  \* per delivery: the community of the inbox path
  sig_ok,                \* per delivery: the HTTP signature verifies
  pc,                    \* per delivery: position in community_inbox
  resp,                  \* per delivery: the HTTP response
  err,                   \* per delivery: why it ended
  effects,               \* per delivery: the mutations it has made
  known_at_start,        \* per delivery: a Dedup Record existed on arrival
  pred,                  \* per delivery: deliveries over before it arrived
  call,                  \* per API call: the operation and its data
  cpc,                   \* per API call: position in perform
  cres,                  \* per API call: the result returned
  page,                  \* per activity id: the Page object a Create carries
  post,                  \* the post table, by object id
  post_like,             \* the post_like table: the score by post and person
  comment,               \* the comment table, by comment id
  post_aggregates,       \* the post_aggregates table, by post id
  comment_like,          \* the comment_like table: the score by comment and
                         \* person
  person_aggregates,     \* the counters of the person_aggregates row of each
                         \* person; the row exists while the person does
  site,                  \* the site table: the creator_id of each row, in id
                         \* order
  admins,                \* the persons whose admin flag is set
  moderator_order,       \* the community_moderator rows of each community in
                         \* the order CommunityModeratorView::for_community
                         \* lists them
  community_mods,        \* TransferCommunity's local community_mods, per call:
                         \* the moderators still to be joined again
  read_community,        \* TransferCommunity's local read_community, per call:
                         \* its creator_id
  at_start               \* the creator and the moderator list of the community
                         \* when a TransferCommunity call began

dbvars ==
  <<activity, person, site_banned, community, community_follower,
    community_person_ban, community_moderator>>
outvars == <<accepts, announces, content>>
delvars ==
  <<envelope, act, path, sig_ok, pc, resp, err, effects, known_at_start,
    pred>>
apivars == <<call, cpc, cres>>
postvars == <<page, post>>
aggvars == <<post_like, comment, post_aggregates, comment_like,
             person_aggregates>>
adminvars ==
  <<site, admins, moderator_order, community_mods, read_community, at_start>>
vars == <<dbvars, outvars, delvars, apivars, postvars, aggvars, adminvars>>

FollowerRows == CommunityIds \X Persons \X BOOLEAN

\* number of community_follower rows of a (community, person) pair
FollowerCount(c, p) ==
  community_follower[<<c, p, FALSE>>] + community_follower[<<c, p, TRUE>>]

Env(d) == envelope[act[d]]

\* errors that come from a collaborator, not from the activity
Faults == {"Storage", "Network", "Abandoned", "ActorUnresolvable"}


\* ------------------------------------------------- storage collaborators
\* Activity::read_from_apub_id behind is_activity_already_known
is_activity_already_known(id) == activity[id] > 0

\* insert_activity: the activity table has a uniqueness constraint on ap_id,
\* so the insert of an id that has a row is an Err
insert_activity_is_err(id) == activity[id] > 0
insert_activity(id) == [activity EXCEPT ![id] = @ + 1]

\* CommunityFollower::follow: an insert into community_follower, which has a
\* uniqueness constraint on (community_id, person_id)
follow_is_err(form) == FollowerCount(form.community_id, form.person_id) > 0
follow(form) ==
  [community_follower EXCEPT
     ![<<form.community_id, form.person_id, form.pending>>] = @ + 1]

\* CommunityFollower::unfollow: delete where community_id and person_id match
unfollow(form) ==
  [r \in FollowerRows |->
     IF r[1] = form.community_id /\ r[2] = form.person_id
       THEN 0 ELSE community_follower[r]]

\* CommunityPersonBanView::get(conn, person_id, community_id).is_ok()
is_banned(person_id, community_id) ==
  <<community_id, person_id>> \in community_person_ban

\* verify_activity_domains_valid
verify_activity_domains_valid(e) == e.domains_valid

\* is_addressed_to_public
is_addressed_to_public(e) == e.public

\* ------------------------------------------------------- delivery helpers
\* the delivery returns: Ok(HttpResponse::Ok()) or Err(_)
Return(d, r, e) ==
  /\ pc' = [pc EXCEPT ![d] = "done"]
  /\ resp' = [resp EXCEPT ![d] = r]
  /\ err' = [err EXCEPT ![d] = e]

Goto(d, l) ==
  /\ pc' = [pc EXCEPT ![d] = l]
  /\ UNCHANGED <<resp, err>>

Did(d, x) == effects' = [effects EXCEPT ![d] = @ \cup {x}]

\* ---------------------------------------------------------- community_inbox
\* An HTTP POST to /c/{name}/inbox arrives.  All deliveries of one id carry
\* the activity minted under that id; their signatures are their own.
Deliver(d, id, e, s, p) ==
  /\ pc[d] = "idle"
  /\ \A d2 \in Deliveries : d2 < d => pc[d2] # "idle"
  /\ envelope[id] \in {NoEnvelope, e}
  /\ envelope' = [envelope EXCEPT ![id] = e]
  /\ act' = [act EXCEPT ![d] = id]
  /\ path' = [path EXCEPT ![d] = p]
  /\ sig_ok' = [sig_ok EXCEPT ![d] = s]
  /\ known_at_start' = [known_at_start EXCEPT ![d] = activity[id] > 0]
  /\ pred' = [pred EXCEPT ![d] = {d2 \in Deliveries : pc[d2] = "done"}]
  /\ Goto(d, "verify")
  /\ UNCHANGED <<dbvars, outvars, effects, apivars, postvars, aggvars, adminvars>>

\* the delivery goes to the inbox of the community the activity is
\* addressed to, a community that exists
InboxOf(e, p) == e.to = {p} /\ community[p].exists

\* inbox_verify_http_signature: resolve the claimed actor (a fetch that
\* stores the actor row when the actor is not known yet), then check the
\* signature against the actor's public key
inbox_verify_http_signature(d) ==
  /\ pc[d] = "verify"
  /\ \/ /\ Env(d).actor \in person
        /\ UNCHANGED <<person, effects>>
     \/ /\ Env(d).actor \notin person
        /\ person' = person \cup {Env(d).actor}
        /\ Did(d, "actor")
  /\ IF sig_ok[d] THEN Goto(d, "known")
                  ELSE Return(d, "error", "SignatureInvalid")
  /\ UNCHANGED <<activity, site_banned, community, community_follower,
                 community_person_ban, community_moderator, outvars, envelope, act, sig_ok,
                 known_at_start, pred, path, apivars, postvars, aggvars, adminvars>>

\* the fetch of an actor that is not known yet fails
ActorUnresolvable(d) ==
  /\ pc[d] = "verify"
  /\ Env(d).actor \notin person
  /\ Return(d, "error", "ActorUnresolvable")
  /\ UNCHANGED <<dbvars, outvars, envelope, act, sig_ok, effects,
                 known_at_start, pred, path, apivars, postvars, aggvars, adminvars>>

\* lines 71-75 without the early return
CheckAlreadyKnown_no_return(d) ==
  /\ pc[d] = "known"
  /\ Goto(d, "community")
  /\ UNCHANGED <<dbvars, outvars, envelope, act, sig_ok, effects,
                 known_at_start, pred, path, apivars, postvars, aggvars, adminvars>>

\* lines 71-75: do nothing if we received the same activity before
CheckAlreadyKnown(d) ==
  /\ pc[d] = "known"
  /\ IF is_activity_already_known(act[d])
       THEN Return(d, "200", "AlreadySeen")
       ELSE Goto(d, "community")
  /\ UNCHANGED <<dbvars, outvars, envelope, act, sig_ok, effects,
                 known_at_start, pred, path, apivars, postvars, aggvars, adminvars>>

\* lines 77-88 without the to/cc test of lines 83-86
CheckAddressing_no_to_check(d) ==
  /\ pc[d] = "community"
  /\ IF ~ (community[path[d]].exists /\ community[path[d]].local)
       THEN Return(d, "error", "NotFound")
       ELSE IF Env(d).local_id
         THEN Return(d, "error", "ForeignActivity")
         ELSE Goto(d, "insert")
  /\ UNCHANGED <<dbvars, outvars, envelope, act, sig_ok, effects,
                 known_at_start, pred, path, apivars, postvars, aggvars, adminvars>>

\* lines 77-88 without assert_activity_not_local
CheckAddressing_no_local_check(d) ==
  /\ pc[d] = "community"
  /\ IF ~ (community[path[d]].exists /\ community[path[d]].local)
       THEN Return(d, "error", "NotFound")
       ELSE IF path[d] \notin Env(d).to
         THEN Return(d, "error", "NotAddressedHere")
         ELSE Goto(d, "insert")
  /\ UNCHANGED <<dbvars, outvars, envelope, act, sig_ok, effects,
                 known_at_start, pred, path, apivars, postvars, aggvars, adminvars>>

\* lines 77-88: read the community of the path, check the addressing,
\* assert_activity_not_local
CheckAddressing(d) ==
  /\ pc[d] = "community"
  /\ IF ~ (community[path[d]].exists /\ community[path[d]].local)
       THEN Return(d, "error", "NotFound")
       ELSE IF path[d] \notin Env(d).to
         THEN Return(d, "error", "NotAddressedHere")
         ELSE IF Env(d).local_id
           THEN Return(d, "error", "ForeignActivity")
           ELSE Goto(d, "insert")
  /\ UNCHANGED <<dbvars, outvars, envelope, act, sig_ok, effects,
                 known_at_start, pred, path, apivars, postvars, aggvars, adminvars>>

\* line 89 with the insert's error swallowed instead of propagated
InsertActivity_ignore_err(d) ==
  /\ pc[d] = "insert"
  /\ activity' = insert_activity(act[d])
  /\ Did(d, "dedup")
  /\ Goto(d, "person")
  /\ UNCHANGED <<person, site_banned, community, community_follower,
                 community_person_ban, community_moderator, outvars, envelope, act, sig_ok,
                 known_at_start, pred, path, apivars, postvars, aggvars, adminvars>>

\* line 89 left out: community_receive_message is called straight away
InsertActivity_skipped(d) ==
  /\ pc[d] = "insert"
  /\ Goto(d, "person")
  /\ UNCHANGED <<dbvars, outvars, envelope, act, sig_ok, effects,
                 known_at_start, pred, path, apivars, postvars, aggvars, adminvars>>

\* line 89: insert_activity(...).await?
InsertActivity(d) ==
  /\ pc[d] = "insert"
  /\ IF insert_activity_is_err(act[d])
       THEN /\ Return(d, "error", "UniqueViolation")
            /\ UNCHANGED <<activity, effects>>
       ELSE /\ activity' = insert_activity(act[d])
            /\ Did(d, "dedup")
            /\ Goto(d, "person")
  /\ UNCHANGED <<person, site_banned, community, community_follower,
                 community_person_ban, community_moderator, outvars, envelope, act, sig_ok,
                 known_at_start, pred, path, apivars, postvars, aggvars, adminvars>>

\* ------------------------------------------------ community_receive_message
\* lines 116-123 and 267-269: read the sender's person row and check
\* person.banned
ReadPerson(d) ==
  /\ pc[d] = "person"
  /\ IF Env(d).actor \notin person
       THEN Return(d, "error", "NotFound")
       ELSE IF Env(d).actor \in site_banned
         THEN Return(d, "error", "ActorBanned")
         ELSE Goto(d, "ban")
  /\ UNCHANGED <<dbvars, outvars, envelope, act, sig_ok, effects,
                 known_at_start, pred, path, apivars, postvars, aggvars, adminvars>>

\* the match with the Remove arm delegating to a content handler
DispatchTarget_remove_content(e) ==
  CASE e.kind = "Follow" ->
         IF verify_activity_domains_valid(e) THEN "follow" ELSE "invalid"
    [] e.kind = "Undo" /\ e.inner = "Follow" ->
         IF verify_activity_domains_valid(e) THEN "undo_person" ELSE "invalid"
    [] e.kind = "Undo" /\ e.inner # "Follow" -> "content"
    [] e.kind \in {"Create", "Update", "Like", "Dislike", "Delete", "Remove"}
         -> "content"

\* lines 128-168 up to the first await of the chosen arm: where the match on
\* the activity kind continues
DispatchTarget(e) ==
  CASE e.kind = "Follow" ->
         IF verify_activity_domains_valid(e) THEN "follow" ELSE "invalid"
    [] e.kind = "Undo" /\ e.inner = "Follow" ->
         IF verify_activity_domains_valid(e) THEN "undo_person" ELSE "invalid"
    [] e.kind = "Undo" /\ e.inner # "Follow" -> "content"
    [] e.kind \in {"Create", "Update", "Like", "Dislike", "Delete"} -> "content"
    [] e.kind = "Remove" -> "ok"

\* the dispatch without the community ban lookup
CheckBanAndDispatch_no_ban(d) ==
  /\ pc[d] = "ban"
  /\ CASE DispatchTarget(Env(d)) = "invalid" ->
            Return(d, "error", "DomainMismatch")
       [] DispatchTarget(Env(d)) = "ok" ->
            Return(d, "200", "None")
       [] OTHER -> Goto(d, DispatchTarget(Env(d)))
  /\ UNCHANGED <<dbvars, outvars, envelope, act, sig_ok, effects,
                 known_at_start, pred, path, apivars, postvars, aggvars, adminvars>>

\* lines 270-275, then the dispatch of lines 125-168
CheckBanAndDispatch(d) ==
  /\ pc[d] = "ban"
  /\ IF is_banned(Env(d).actor, path[d])
       THEN Return(d, "error", "ActorBanned")
       ELSE CASE DispatchTarget(Env(d)) = "invalid" ->
                   Return(d, "error", "DomainMismatch")
              [] DispatchTarget(Env(d)) = "ok" ->
                   Return(d, "200", "None")
              [] OTHER -> Goto(d, DispatchTarget(Env(d)))
  /\ UNCHANGED <<dbvars, outvars, envelope, act, sig_ok, effects,
                 known_at_start, pred, path, apivars, postvars, aggvars, adminvars>>

\* the form with pending: true
CommunityFollowerForm_pending(c, p) ==
  [community_id |-> c, person_id |-> p, pending |-> TRUE]

\* CommunityFollowerForm of lines 192-196 and 247-251
CommunityFollowerForm(c, p) ==
  [community_id |-> c, person_id |-> p, pending |-> FALSE]

\* lines 192-202 without the uniqueness constraint behind follow
HandleFollow_always_insert(d) ==
  /\ pc[d] = "follow"
  /\ community_follower' =
       follow(CommunityFollowerForm(path[d], Env(d).actor))
  /\ Did(d, "follow")
  /\ Goto(d, "accept")
  /\ UNCHANGED <<activity, person, site_banned, community,
                 community_person_ban, community_moderator, outvars, envelope, act, sig_ok,
                 known_at_start, pred, path, apivars, postvars, aggvars, adminvars>>

\* lines 192-202 with the error of follow propagated
HandleFollow_escalate(d) ==
  /\ pc[d] = "follow"
  /\ LET form == CommunityFollowerForm(path[d], Env(d).actor) IN
       IF follow_is_err(form)
         THEN /\ Return(d, "error", "UniqueViolation")
              /\ UNCHANGED <<community_follower, effects>>
         ELSE /\ community_follower' = follow(form)
              /\ Did(d, "follow")
              /\ Goto(d, "accept")
  /\ UNCHANGED <<activity, person, site_banned, community,
                 community_person_ban, community_moderator, outvars, envelope, act, sig_ok,
                 known_at_start, pred, path, apivars, postvars, aggvars, adminvars>>

\* lines 192-202: CommunityFollower::follow(..).ok()
HandleFollow(d) ==
  /\ pc[d] = "follow"
  /\ LET form == CommunityFollowerForm(path[d], Env(d).actor) IN
       IF follow_is_err(form)
         THEN UNCHANGED <<community_follower, effects>>
         ELSE /\ community_follower' = follow(form)
              /\ Did(d, "follow")
  /\ Goto(d, "accept")
  /\ UNCHANGED <<activity, person, site_banned, community,
                 community_person_ban, community_moderator, outvars, envelope, act, sig_ok,
                 known_at_start, pred, path, apivars, postvars, aggvars, adminvars>>

\* handle_follow's arm yielding do_announce = true
SendAcceptFollow_announce(d) ==
  /\ pc[d] = "accept"
  /\ accepts' = [accepts EXCEPT ![act[d]] = @ + 1]
  /\ Did(d, "accept")
  /\ Goto(d, "announce")
  /\ UNCHANGED <<dbvars, announces, content, envelope, act, sig_ok,
                 known_at_start, pred, path, apivars, postvars, aggvars, adminvars>>

\* line 204: community.send_accept_follow(follow, context).await?
SendAcceptFollow(d) ==
  /\ pc[d] = "accept"
  /\ accepts' = [accepts EXCEPT ![act[d]] = @ + 1]
  /\ Did(d, "accept")
  /\ Return(d, "200", "None")
  /\ UNCHANGED <<dbvars, announces, content, envelope, act, sig_ok,
                 known_at_start, pred, path, apivars, postvars, aggvars, adminvars>>

\* lines 243-246: handle_undo_follow reads the person again
UndoReadPerson(d) ==
  /\ pc[d] = "undo_person"
  /\ IF Env(d).actor \notin person
       THEN Return(d, "error", "NotFound")
       ELSE Goto(d, "unfollow")
  /\ UNCHANGED <<dbvars, outvars, envelope, act, sig_ok, effects,
                 known_at_start, pred, path, apivars, postvars, aggvars, adminvars>>

\* lines 247-259 without the delete
HandleUndoFollow_no_delete(d) ==
  /\ pc[d] = "unfollow"
  /\ Return(d, "200", "None")
  /\ UNCHANGED <<dbvars, outvars, envelope, act, sig_ok, effects,
                 known_at_start, pred, path, apivars, postvars, aggvars, adminvars>>

\* lines 247-259 with the error of unfollow propagated instead of ignored
HandleUndoFollow_escalate(d) ==
  /\ pc[d] = "unfollow"
  /\ LET form == CommunityFollowerForm(path[d], Env(d).actor) IN
       IF FollowerCount(form.community_id, form.person_id) = 0
         THEN /\ Return(d, "error", "NotFound")
              /\ UNCHANGED <<community_follower, effects>>
         ELSE /\ community_follower' = unfollow(form)
              /\ Did(d, "unfollow")
              /\ Return(d, "200", "None")
  /\ UNCHANGED <<activity, person, site_banned, community,
                 community_person_ban, community_moderator, outvars, envelope, act, sig_ok,
                 known_at_start, pred, path, apivars, postvars, aggvars, adminvars>>

\* lines 247-259: CommunityFollower::unfollow(..).ok(), then Ok(false) of
\* handle_undo and the Ok of line 178
HandleUndoFollow(d) ==
  /\ pc[d] = "unfollow"
  /\ LET form == CommunityFollowerForm(path[d], Env(d).actor) IN
       /\ community_follower' = unfollow(form)
       /\ IF FollowerCount(form.community_id, form.person_id) > 0
            THEN Did(d, "unfollow") ELSE UNCHANGED effects
  /\ Return(d, "200", "None")
  /\ UNCHANGED <<activity, person, site_banned, community,
                 community_person_ban, community_moderator, outvars, envelope, act, sig_ok,
                 known_at_start, pred, path, apivars, postvars, aggvars, adminvars>>

\* receive_{create,update,like,dislike,delete,undo}_for_community: the
\* translation of the object and its effect on post, comment or vote
ReceiveForCommunity(d) ==
  /\ pc[d] = "content"
  /\ content' = [content EXCEPT ![act[d]] = @ + 1]
  /\ Did(d, "content")
  /\ Goto(d, "announce")
  /\ UNCHANGED <<dbvars, accepts, announces, envelope, act, sig_ok,
                 known_at_start, pred, path, apivars, postvars, aggvars, adminvars>>

\* the same handlers returning Err before they changed anything
ReceiveForCommunityErr(d) ==
  /\ pc[d] = "content"
  /\ Return(d, "error", "Handler")
  /\ UNCHANGED <<dbvars, outvars, envelope, act, sig_ok, effects,
                 known_at_start, pred, path, apivars, postvars, aggvars, adminvars>>

\* lines 170-178 with do_announce taken as false
Announce_never(d) ==
  /\ pc[d] = "announce"
  /\ Return(d, "200", "None")
  /\ UNCHANGED <<dbvars, outvars, envelope, act, sig_ok, effects,
                 known_at_start, pred, path, apivars, postvars, aggvars, adminvars>>

\* lines 170-178 without is_addressed_to_public
Announce_unchecked(d) ==
  /\ pc[d] = "announce"
  /\ announces' = [announces EXCEPT ![act[d]] = @ + 1]
  /\ Did(d, "announce")
  /\ \/ Return(d, "200", "None")
     \/ Return(d, "error", "Network")
  /\ UNCHANGED <<dbvars, accepts, content, envelope, act, sig_ok,
                 known_at_start, pred, path, apivars, postvars, aggvars, adminvars>>

\* lines 170-178: the public check, send_announce, whose delivery may fail
Announce(d) ==
  /\ pc[d] = "announce"
  /\ IF ~ is_addressed_to_public(Env(d))
       THEN /\ Return(d, "error", "NotPublic")
            /\ UNCHANGED <<announces, effects>>
       ELSE /\ announces' = [announces EXCEPT ![act[d]] = @ + 1]
            /\ Did(d, "announce")
            /\ \/ Return(d, "200", "None")
               \/ Return(d, "error", "Network")
  /\ UNCHANGED <<dbvars, accepts, content, envelope, act, sig_ok,
                 known_at_start, pred, path, apivars, postvars, aggvars, adminvars>>

\* --------------------------------------------------- apub objects/post.rs
\* the words the slur filter matches
Denylist == {"slur"}

\* the texts of a post's name and body, as sequences of words: one without
\* and one with a denylisted word
Texts == {<<"some">>, <<"some", "slur", "text">>}

\* check_slurs(&name) is Ok: the filter matches nowhere
check_slurs(t) == \A i \in DOMAIN t : t[i] \notin Denylist

\* remove_slurs(&b): every match is replaced
remove_slurs(t) ==
  [i \in DOMAIN t |-> IF t[i] \in Denylist THEN "*removed*" ELSE t[i]]

\* A Page object: `id` is the post it names, `creator` its attributed_to,
\* `community` the community of its `to`, `has_url` whether it carries a
\* link, `domain_ok` whether the domain of its id is the expected domain.
NoPage == [id |-> 0]
AllPages ==
  [id : PostIds, creator : Persons, community : CommunityIds,
   has_url : BOOLEAN, name : Texts, body : Texts, domain_ok : BOOLEAN]

\* the pages with at most one of: a slur in the name, a slur in the body, an
\* id of another domain
PageDefects(pg) ==
  (IF check_slurs(pg.name) THEN 0 ELSE 1)
  + (IF check_slurs(pg.body) THEN 0 ELSE 1)
  + (IF pg.domain_ok THEN 0 ELSE 1)

Pages == {pg \in AllPages : PageDefects(pg) <= 1}

NoPost == [exists |-> FALSE]

Page(d) == page[act[d]]

\* check_object_domain(page, expected_domain) is Ok
check_object_domain(pg) == pg.domain_ok

\* lines 179-221 with the body stored as it came
PostForm_body_kept(pg) ==
  [exists |-> TRUE, name |-> pg.name, body |-> pg.body,
   creator_id |-> pg.creator, community_id |-> pg.community,
   has_url |-> pg.has_url, local |-> FALSE]

\* lines 179-221: the PostForm
PostForm(pg) ==
  [exists |-> TRUE, name |-> pg.name, body |-> remove_slurs(pg.body),
   creator_id |-> pg.creator, community_id |-> pg.community,
   has_url |-> pg.has_url, local |-> FALSE]

\* receive_create_for_community of a Page: Post::from_apub is entered with
\* the Page the activity carries ("page" marks the deliveries that got here)
ReceivePage(d, pg) ==
  /\ pc[d] = "content"
  /\ page[act[d]] \in {NoPage, pg}
  /\ page' = [page EXCEPT ![act[d]] = pg]
  /\ Did(d, "page")
  /\ Goto(d, "tr_creator")
  /\ UNCHANGED <<dbvars, outvars, envelope, act, sig_ok,
                 known_at_start, pred, path, apivars, post, aggvars, adminvars>>

\* lines 137-146: get_or_fetch_and_upsert_person fetches and stores the
\* creator when it has no row, and refetches a remote creator whose row is
\* stale
TranslateCreator(d) ==
  /\ pc[d] = "tr_creator"
  /\ \/ /\ Page(d).creator \notin person
        /\ person' = person \cup {Page(d).creator}
        /\ Did(d, "creator")
     \/ /\ Page(d).creator \in person \cap RemotePersons
        /\ Did(d, "creator")
        /\ UNCHANGED person
     \/ /\ Page(d).creator \in person
        /\ UNCHANGED <<person, effects>>
  /\ Goto(d, "tr_community")
  /\ UNCHANGED <<activity, site_banned, community, community_follower,
                 community_person_ban, community_moderator, outvars, envelope,
                 act, sig_ok, known_at_start, pred, path, apivars, postvars, aggvars, adminvars>>

\* line 148: get_to_community fetches and stores a community that has no
\* row, and refetches a remote community whose row is stale
TranslateCommunity(d) ==
  /\ pc[d] = "tr_community"
  /\ \/ /\ ~ community[Page(d).community].exists
        /\ community' =
             [community EXCEPT ![Page(d).community] =
                [exists |-> TRUE, local |-> FALSE, creator_id |-> 0]]
        /\ Did(d, "community")
     \/ /\ community[Page(d).community].exists
        /\ ~ community[Page(d).community].local
        /\ Did(d, "community")
        /\ UNCHANGED community
     \/ /\ community[Page(d).community].exists
        /\ UNCHANGED <<community, effects>>
  /\ Goto(d, "tr_fetch")
  /\ UNCHANGED <<activity, person, site_banned, community_follower,
                 community_person_ban, community_moderator, outvars, envelope,
                 act, sig_ok, known_at_start, pred, path, apivars, postvars, aggvars, adminvars>>

\* lines 150-176: fetch_iframely_and_pictrs_data when the Page has a url
TranslateFetch(d) ==
  /\ pc[d] = "tr_fetch"
  /\ IF Page(d).has_url THEN Did(d, "fetch") ELSE UNCHANGED effects
  /\ Goto(d, "tr_form")
  /\ UNCHANGED <<dbvars, outvars, envelope, act, sig_ok,
                 known_at_start, pred, path, apivars, postvars, aggvars, adminvars>>

\* lines 178-221 with check_object_domain before the resolution of creator
\* and community is ever started
TranslateForm_domain_unchecked(d) ==
  /\ pc[d] = "tr_form"
  /\ IF ~ check_slurs(Page(d).name)
       THEN Return(d, "error", "Slur")
       ELSE Goto(d, "tr_upsert")
  /\ UNCHANGED <<dbvars, outvars, envelope, act, sig_ok, effects,
                 known_at_start, pred, path, apivars, postvars, aggvars, adminvars>>

\* lines 178-221: check_slurs on the name, then the form, whose ap_id is
\* check_object_domain(page, expected_domain)?
TranslateForm(d) ==
  /\ pc[d] = "tr_form"
  /\ IF ~ check_slurs(Page(d).name)
       THEN Return(d, "error", "Slur")
       ELSE IF ~ check_object_domain(Page(d))
         THEN Return(d, "error", "DomainMismatch")
         ELSE Goto(d, "tr_upsert")
  /\ UNCHANGED <<dbvars, outvars, envelope, act, sig_ok, effects,
                 known_at_start, pred, path, apivars, postvars, aggvars, adminvars>>

\* line 121: get_object_from_apub stores the form it obtained
UpsertPost(d) ==
  /\ pc[d] = "tr_upsert"
  /\ post' = [post EXCEPT ![Page(d).id] = PostForm(Page(d))]
  /\ content' = [content EXCEPT ![act[d]] = @ + 1]
  /\ Did(d, "content")
  /\ Goto(d, "tr_ban")
  /\ UNCHANGED <<dbvars, accepts, announces, envelope, act, sig_ok,
                 known_at_start, pred, path, apivars, page, aggvars, adminvars>>

\* lines 122-124: check_object_for_community_or_site_ban on the creator of
\* the Page and the community of the stored post
CheckObjectBan(d) ==
  /\ pc[d] = "tr_ban"
  /\ IF \/ Page(d).creator \in site_banned
        \/ is_banned(Page(d).creator, post[Page(d).id].community_id)
       THEN Return(d, "error", "ActorBanned")
       ELSE Goto(d, "announce")
  /\ UNCHANGED <<dbvars, outvars, envelope, act, sig_ok, effects,
                 known_at_start, pred, path, apivars, postvars, aggvars, adminvars>>

\* ------------------------------------- db_queries aggregates, post side
\* The tables and the operations that tests::test_crud of post_aggregates.rs
\* drives, with the triggers that keep a post_aggregates row per post.
NoComment == [exists |-> FALSE]
NoAggregates == [exists |-> FALSE]

\* the row the insert trigger of post makes
ZeroAggregates ==
  [exists |-> TRUE, comments |-> 0, score |-> 0, upvotes |-> 0,
   downvotes |-> 0]

\* the scores of a PostLikeForm
Scores == {1, -1}

\* the triggers of post_like: a row of score sc comes (sign = 1) or goes
\* (sign = -1)
LikeTrigger(agg, sc, sign) ==
  [agg EXCEPT !.score = @ + sign * sc,
              !.upvotes = @ + (IF sc = 1 THEN sign ELSE 0),
              !.downvotes = @ + (IF sc = -1 THEN sign ELSE 0)]

\* the triggers of comment: n rows come (n > 0) or go (n < 0)
CommentTrigger(agg, n) == [agg EXCEPT !.comments = @ + n]

\* c with the comments under it, which the delete of c takes along
RECURSIVE Subtree(_)
Subtree(S) ==
  LET T == S \cup {c \in CommentIds :
                     comment[c].exists /\ comment[c].parent_id \in S}
  IN  IF T = S THEN S ELSE Subtree(T)

\* the counters of the row the insert trigger of person makes
ZeroPersonAggregates ==
  [post_count |-> 0, post_score |-> 0, comment_count |-> 0,
   comment_score |-> 0]

\* PersonAggregates::read (person_aggregates.rs 16-22): the row of the
\* person, an error when there is none
PersonAggregates_read(q) ==
  IF q \in person
    THEN [exists |-> TRUE,
          post_count |-> person_aggregates[q].post_count,
          post_score |-> person_aggregates[q].post_score,
          comment_count |-> person_aggregates[q].comment_count,
          comment_score |-> person_aggregates[q].comment_score]
    ELSE NoAggregates

\* the sum of the scores of the like rows L of the like table tbl
ScoreSum(L, tbl) ==
  Cardinality({l \in L : tbl[l] = 1}) - Cardinality({l \in L : tbl[l] = -1})

\* the rows that go when the posts DP, the comments DC and the persons DQ
\* are deleted: the foreign keys take along the posts and comments of a
\* deleted person, the comments of a deleted post, the comments under a
\* deleted comment, and the likes on, or of, whatever goes
CascadeRows(DP, DC, DQ) ==
  LET posts == DP \cup {o \in PostIds :
                          post[o].exists /\ post[o].creator_id \in DQ}
      comments ==
        Subtree(DC \cup {c \in CommentIds :
                           /\ comment[c].exists
                           /\ \/ comment[c].post_id \in posts
                              \/ comment[c].creator_id \in DQ})
  IN  [posts |-> posts,
       comments |-> comments,
       post_likes |-> {l \in PostIds \X Persons :
                         post_like[l] # 0 /\ (l[1] \in posts \/ l[2] \in DQ)},
       comment_likes |-> {l \in CommentIds \X Persons :
                            /\ comment_like[l] # 0
                            /\ (l[1] \in comments \/ l[2] \in DQ)}]

\* the delete triggers of post, comment, post_like and comment_like, fired
\* for the rows in fired, on the post_aggregates row of post o
PostDeleteTriggers(o, fired) ==
  LET likes == {l \in fired.post_likes : l[1] = o}
  IN  [post_aggregates[o] EXCEPT
         !.comments = @ - Cardinality({c \in fired.comments :
                                         comment[c].post_id = o}),
         !.score = @ - ScoreSum(likes, post_like),
         !.upvotes = @ - Cardinality({l \in likes : post_like[l] = 1}),
         !.downvotes = @ - Cardinality({l \in likes : post_like[l] = -1})]

\* the same triggers on the counters of person q
PersonDeleteTriggers(q, fired) ==
  [post_count |->
     person_aggregates[q].post_count
       - Cardinality({o \in fired.posts : post[o].creator_id = q}),
   post_score |->
     person_aggregates[q].post_score
       - ScoreSum({l \in fired.post_likes : post[l[1]].creator_id = q},
                  post_like),
   comment_count |->
     person_aggregates[q].comment_count
       - Cardinality({c \in fired.comments : comment[c].creator_id = q}),
   comment_score |->
     person_aggregates[q].comment_score
       - ScoreSum({l \in fired.comment_likes :
                     comment[l[1]].creator_id = q}, comment_like)]

\* the rows in rows go, and the delete triggers fire for the rows in fired;
\* the aggregates rows of a deleted post and of the deleted persons DQ go
\* with them
DeleteRows(rows, fired, DQ) ==
  /\ post' = [o \in PostIds |-> IF o \in rows.posts THEN NoPost ELSE post[o]]
  /\ comment' = [c \in CommentIds |->
                  IF c \in rows.comments THEN NoComment ELSE comment[c]]
  /\ post_like' = [l \in PostIds \X Persons |->
                    IF l \in rows.post_likes THEN 0 ELSE post_like[l]]
  /\ comment_like' = [l \in CommentIds \X Persons |->
                       IF l \in rows.comment_likes THEN 0
                                                   ELSE comment_like[l]]
  /\ post_aggregates' =
       [o \in PostIds |->
          IF o \in rows.posts THEN NoAggregates
          ELSE IF post[o].exists THEN PostDeleteTriggers(o, fired)
          ELSE post_aggregates[o]]
  /\ person_aggregates' =
       [q \in Persons |->
          IF q \in DQ THEN ZeroPersonAggregates
                      ELSE PersonDeleteTriggers(q, fired)]

\* Post::create (post_aggregates.rs 136, person_aggregates.rs 132): the
\* post and its post_aggregates row; the creator has one post more
Post_create(o, creator) ==
  /\ ~ post[o].exists
  /\ creator \in person
  /\ post' = [post EXCEPT ![o] =
               [exists |-> TRUE, name |-> <<"some">>, body |-> <<"some">>,
                creator_id |-> creator, community_id |-> 1,
                has_url |-> FALSE, local |-> TRUE]]
  /\ post_aggregates' = [post_aggregates EXCEPT ![o] = ZeroAggregates]
  /\ person_aggregates' =
       [person_aggregates EXCEPT ![creator].post_count = @ + 1]
  /\ UNCHANGED <<adminvars, dbvars, outvars, delvars, apivars, page, post_like,
                 comment, comment_like>>

\* PostLike::like (post_aggregates.rs 176, 192, person_aggregates.rs 140)
\* by a person who has no like on the post
PostLike_like(o, p, sc) ==
  /\ post[o].exists /\ p \in person
  /\ post_like[<<o, p>>] = 0
  /\ post_like' = [post_like EXCEPT ![<<o, p>>] = sc]
  /\ post_aggregates' =
       [post_aggregates EXCEPT ![o] = LikeTrigger(@, sc, 1)]
  /\ person_aggregates' =
       [person_aggregates EXCEPT ![post[o].creator_id].post_score = @ + sc]
  /\ UNCHANGED <<adminvars, dbvars, outvars, delvars, apivars, postvars, comment,
                 comment_like>>

\* PostLike::remove (post_aggregates.rs 210, person_aggregates.rs 201):
\* delete the like of the person on the post, if there is one
PostLike_remove(p, o) ==
  /\ post[o].exists /\ p \in person
  /\ post_like' = [post_like EXCEPT ![<<o, p>>] = 0]
  /\ post_aggregates' =
       IF post_like[<<o, p>>] = 0 THEN post_aggregates
       ELSE [post_aggregates EXCEPT
               ![o] = LikeTrigger(@, post_like[<<o, p>>], -1)]
  /\ person_aggregates' =
       [person_aggregates EXCEPT
          ![post[o].creator_id].post_score = @ - post_like[<<o, p>>]]
  /\ UNCHANGED <<adminvars, dbvars, outvars, delvars, apivars, postvars, comment,
                 comment_like>>

\* Comment::create (post_aggregates.rs 152, 168, person_aggregates.rs 156,
\* 181): a comment on the post, top-level (parent 0) or under a comment of
\* the same post; the creator has one comment more
Comment_create(c, o, parent, creator) ==
  /\ ~ comment[c].exists
  /\ post[o].exists /\ creator \in person
  /\ parent # 0 => (comment[parent].exists /\ comment[parent].post_id = o)
  /\ comment' = [comment EXCEPT ![c] =
                  [exists |-> TRUE, post_id |-> o, parent_id |-> parent,
                   creator_id |-> creator]]
  /\ post_aggregates' =
       [post_aggregates EXCEPT ![o] = CommentTrigger(@, 1)]
  /\ person_aggregates' =
       [person_aggregates EXCEPT ![creator].comment_count = @ + 1]
  /\ UNCHANGED <<adminvars, dbvars, outvars, delvars, apivars, postvars, post_like,
                 comment_like>>

\* CommentLike::like (person_aggregates.rs 165, 190) by a person who has no
\* like on the comment
CommentLike_like(c, p, sc) ==
  /\ comment[c].exists /\ p \in person
  /\ comment_like[<<c, p>>] = 0
  /\ comment_like' = [comment_like EXCEPT ![<<c, p>>] = sc]
  /\ person_aggregates' =
       [person_aggregates EXCEPT
          ![comment[c].creator_id].comment_score = @ + sc]
  /\ UNCHANGED <<adminvars, dbvars, outvars, delvars, apivars, postvars, post_like,
                 comment, post_aggregates>>

\* CommentLike::remove: delete the like of the person on the comment, if
\* there is one
CommentLike_remove(p, c) ==
  /\ comment[c].exists /\ p \in person
  /\ comment_like' = [comment_like EXCEPT ![<<c, p>>] = 0]
  /\ person_aggregates' =
       [person_aggregates EXCEPT
          ![comment[c].creator_id].comment_score = @ - comment_like[<<c, p>>]]
  /\ UNCHANGED <<adminvars, dbvars, outvars, delvars, apivars, postvars, post_like,
                 comment, post_aggregates>>

\* Comment::delete with the triggers fired for the deleted comment alone
Comment_delete_one_trigger(c) ==
  /\ comment[c].exists
  /\ LET rows == CascadeRows({}, {c}, {})
     IN  DeleteRows(rows,
                    [rows EXCEPT !.comments = {c},
                                 !.comment_likes =
                                    {l \in rows.comment_likes : l[1] = c}],
                    {})
  /\ UNCHANGED <<adminvars, dbvars, outvars, delvars, apivars, page>>

\* Comment::delete (post_aggregates.rs 202, person_aggregates.rs 206): the
\* comment goes and takes the comments under it and their likes along; the
\* triggers fire for every row that goes
Comment_delete(c) ==
  /\ comment[c].exists
  /\ LET rows == CascadeRows({}, {c}, {})
     IN  DeleteRows(rows, rows, {})
  /\ UNCHANGED <<adminvars, dbvars, outvars, delvars, apivars, page>>

\* Post::delete with no trigger fired for the likes of the comments that go
Post_delete_likes_kept(o) ==
  /\ post[o].exists
  /\ LET rows == CascadeRows({o}, {}, {})
     IN  DeleteRows(rows, [rows EXCEPT !.comment_likes = {}], {})
  /\ UNCHANGED <<adminvars, dbvars, outvars, delvars, apivars, page>>

\* Post::delete (person_aggregates.rs 221): the post goes with its likes,
\* its comments and their likes
Post_delete(o) ==
  /\ post[o].exists
  /\ LET rows == CascadeRows({o}, {}, {})
     IN  DeleteRows(rows, rows, {})
  /\ UNCHANGED <<adminvars, dbvars, outvars, delvars, apivars, page>>

\* Person::delete (post_aggregates.rs 217-218, person_aggregates.rs
\* 229-231): the person goes with the posts, comments and likes the person
\* made and with the person_aggregates row
Person_delete(q) ==
  /\ q \in person
  /\ person' = person \ {q}
  /\ LET rows == CascadeRows({}, {}, {q})
     IN  DeleteRows(rows, rows, {q})
  /\ UNCHANGED <<adminvars, activity, site_banned, community, community_follower,
                 community_person_ban, community_moderator, outvars, delvars,
                 apivars, page>>

\* ------------------------------------------------------ collaborator faults
\* the positions whose await is a `blocking(pool, ..)` call
BlockingSteps ==
  {"known", "community", "insert", "person", "ban", "follow", "undo_person",
   "unfollow"}

\* blocking(..).await? returns the pool's error
StorageFault(d) ==
  /\ pc[d] \in BlockingSteps
  /\ Return(d, "error", "Storage")
  /\ UNCHANGED <<dbvars, outvars, envelope, act, sig_ok, effects,
                 known_at_start, pred, path, apivars, postvars, aggvars, adminvars>>

\* send_accept_follow(..).await? returns a delivery error
NetworkFault(d) ==
  /\ pc[d] = "accept"
  /\ Return(d, "error", "Network")
  /\ UNCHANGED <<dbvars, outvars, envelope, act, sig_ok, effects,
                 known_at_start, pred, path, apivars, postvars, aggvars, adminvars>>

\* the request is dropped at a suspension point (caller timeout)
Abandon(d) ==
  /\ pc[d] \notin {"idle", "done"}
  /\ Return(d, "abandoned", "Abandoned")
  /\ UNCHANGED <<dbvars, outvars, envelope, act, sig_ok, effects,
                 known_at_start, pred, path, apivars, postvars, aggvars, adminvars>>

\* ------------------------------------------------- crates/api community.rs
NoCall == [op |-> "None"]

\* the requests of the API; `person` is the local user of the jwt
ApiCalls ==
  [op : {"CreateCommunity"}, person : LocalPersons, community : CommunityIds,
   target : {0}, flag : {TRUE}]
  \cup
  [op : {"FollowCommunity"}, person : LocalPersons, community : CommunityIds,
   target : {0}, flag : BOOLEAN]
  \cup
  [op : {"BanFromCommunity"}, person : LocalPersons, community : CommunityIds,
   target : Persons, flag : BOOLEAN]

FirstStep(op) ==
  CASE op = "CreateCommunity" -> "cc_dupe"
    [] op = "FollowCommunity" -> "fc_read"
    [] op = "BanFromCommunity" -> "bc_auth"
    [] op = "TransferCommunity" -> "tc_read"
    [] op = "CreateSite" -> "cs_read"

ApiGoto(a, l) ==
  /\ cpc' = [cpc EXCEPT ![a] = l]
  /\ UNCHANGED <<call, cres>>

\* perform returns Ok(..) ("ok") or Err(ApiError::err(r))
ApiReturn(a, r) ==
  /\ cpc' = [cpc EXCEPT ![a] = "done"]
  /\ cres' = [cres EXCEPT ![a] = r]
  /\ UNCHANGED call

\* a request arrives and get_local_user_view_from_jwt accepts its jwt
Perform(a, c) ==
  /\ cpc[a] = "idle"
  /\ \A a2 \in Calls : a2 < a => cpc[a2] # "idle"
  /\ call' = [call EXCEPT ![a] = c]
  /\ cpc' = [cpc EXCEPT ![a] = FirstStep(c.op)]
  /\ UNCHANGED <<cres, dbvars, outvars, delvars, postvars, aggvars, adminvars>>

\* a request that arrives when no other request is running
PerformAlone(a, c) ==
  /\ \A a2 \in Calls : cpc[a2] \in {"idle", "done"}
  /\ Perform(a, c)

\* Community::create: community.actor_id is unique
Community_create_is_err(c) == community[c].exists
Community_create(c, p) ==
  [community EXCEPT ![c] = [exists |-> TRUE, local |-> TRUE, creator_id |-> p]]

\* CommunityModerator::join
join_is_err(c, p) == <<c, p>> \in community_moderator

\* is_mod_or_admin
is_mod_or_admin(p, c) == <<c, p>> \in community_moderator

\* CommunityPersonBan::ban: one row per (community, person), of a person
\* that exists
ban_is_err(c, p) == <<c, p>> \in community_person_ban \/ p \notin person

\* CommunityFollower::unfollow fails if they aren't a follower
unfollow_is_err(form) ==
  FollowerCount(form.community_id, form.person_id) = 0

\* CreateCommunity::perform, lines 145-154: the duplicate check
CreateCommunity_DupeCheck(a) ==
  /\ cpc[a] = "cc_dupe"
  /\ IF community[call[a].community].exists
       THEN ApiReturn(a, "community_already_exists")
       ELSE ApiGoto(a, "cc_create")
  /\ UNCHANGED <<dbvars, outvars, delvars, postvars, aggvars, adminvars>>

\* lines 185-192 with a Community::create that takes any actor id
CreateCommunity_Create_unconstrained(a) ==
  /\ cpc[a] = "cc_create"
  /\ community' = Community_create(call[a].community, call[a].person)
  /\ ApiGoto(a, "cc_join")
  /\ UNCHANGED <<activity, person, site_banned, community_follower,
                 community_person_ban, community_moderator, outvars, delvars,
                 postvars, aggvars, adminvars>>

\* lines 185-192: Community::create
CreateCommunity_Create(a) ==
  /\ cpc[a] = "cc_create"
  /\ IF Community_create_is_err(call[a].community)
       THEN /\ ApiReturn(a, "community_already_exists")
            /\ UNCHANGED community
       ELSE /\ community' = Community_create(call[a].community, call[a].person)
            /\ ApiGoto(a, "cc_join")
  /\ UNCHANGED <<activity, person, site_banned, community_follower,
                 community_person_ban, community_moderator, outvars, delvars, postvars, aggvars, adminvars>>

\* lines 194-203 without the insert of the moderator row
CreateCommunity_Join_skipped(a) ==
  /\ cpc[a] = "cc_join"
  /\ ApiGoto(a, "cc_follow")
  /\ UNCHANGED <<dbvars, outvars, delvars, postvars, aggvars, adminvars>>

\* lines 194-203: the creator becomes a moderator
CreateCommunity_Join(a) ==
  /\ cpc[a] = "cc_join"
  /\ IF join_is_err(call[a].community, call[a].person)
       THEN /\ ApiReturn(a, "community_moderator_already_exists")
            /\ UNCHANGED <<community_moderator, moderator_order>>
       ELSE /\ community_moderator' =
                 community_moderator \cup {<<call[a].community, call[a].person>>}
            /\ moderator_order' =
                 [moderator_order EXCEPT
                    ![call[a].community] = Append(@, call[a].person)]
            /\ ApiGoto(a, "cc_follow")
  /\ UNCHANGED <<activity, person, site_banned, community, community_follower,
                 community_person_ban, outvars, delvars, postvars, aggvars,
                 site, admins, community_mods, read_community, at_start>>

\* lines 205-223: the creator follows the community
CreateCommunity_Follow(a) ==
  /\ cpc[a] = "cc_follow"
  /\ LET form == CommunityFollowerForm(call[a].community, call[a].person) IN
       IF follow_is_err(form)
         THEN /\ ApiReturn(a, "community_follower_already_exists")
              /\ UNCHANGED community_follower
         ELSE /\ community_follower' = follow(form)
              /\ ApiReturn(a, "ok")
  /\ UNCHANGED <<activity, person, site_banned, community,
                 community_person_ban, community_moderator, outvars, delvars, postvars, aggvars, adminvars>>

\* FollowCommunity::perform, lines 491-503, 510, 517 and 524: read the
\* community and branch on community.local and on follow
FollowCommunity_Read(a) ==
  /\ cpc[a] = "fc_read"
  /\ IF ~ community[call[a].community].exists
       THEN ApiReturn(a, "not_found")
       ELSE IF community[call[a].community].local
         THEN IF call[a].flag THEN ApiGoto(a, "fc_ban")
                              ELSE ApiGoto(a, "fc_unfollow")
         ELSE IF call[a].flag THEN ApiGoto(a, "fc_send_follow")
                              ELSE ApiGoto(a, "fc_send_unfollow")
  /\ UNCHANGED <<dbvars, outvars, delvars, postvars, aggvars, adminvars>>

\* line 504 left out
FollowCommunity_CheckBan_skipped(a) ==
  /\ cpc[a] = "fc_ban"
  /\ ApiGoto(a, "fc_follow")
  /\ UNCHANGED <<dbvars, outvars, delvars, postvars, aggvars, adminvars>>

\* line 504: check_community_ban
FollowCommunity_CheckBan(a) ==
  /\ cpc[a] = "fc_ban"
  /\ IF is_banned(call[a].person, call[a].community)
       THEN ApiReturn(a, "community_ban")
       ELSE ApiGoto(a, "fc_follow")
  /\ UNCHANGED <<dbvars, outvars, delvars, postvars, aggvars, adminvars>>

\* lines 506-509 and 535-549
FollowCommunity_Follow(a) ==
  /\ cpc[a] = "fc_follow"
  /\ LET form == CommunityFollowerForm(call[a].community, call[a].person) IN
       IF follow_is_err(form)
         THEN /\ ApiReturn(a, "community_follower_already_exists")
              /\ UNCHANGED community_follower
         ELSE /\ community_follower' = follow(form)
              /\ ApiReturn(a, "ok")
  /\ UNCHANGED <<activity, person, site_banned, community,
                 community_person_ban, community_moderator, outvars, delvars, postvars, aggvars, adminvars>>

\* lines 511-515 and 535-549
FollowCommunity_Unfollow(a) ==
  /\ cpc[a] = "fc_unfollow"
  /\ LET form == CommunityFollowerForm(call[a].community, call[a].person) IN
       IF unfollow_is_err(form)
         THEN /\ ApiReturn(a, "community_follower_already_exists")
              /\ UNCHANGED community_follower
         ELSE /\ community_follower' = unfollow(form)
              /\ ApiReturn(a, "ok")
  /\ UNCHANGED <<activity, person, site_banned, community,
                 community_person_ban, community_moderator, outvars, delvars, postvars, aggvars, adminvars>>

\* lines 517-523 and 535-549: send_follow to the remote community, whose
\* delivery may fail; no follower row is written
FollowCommunity_SendFollow(a) ==
  /\ cpc[a] = "fc_send_follow"
  /\ \/ ApiReturn(a, "ok")
     \/ ApiReturn(a, "network")
  /\ UNCHANGED <<dbvars, outvars, delvars, postvars, aggvars, adminvars>>

\* lines 524-533 and 535-549: send_unfollow, then the row is deleted
FollowCommunity_SendUnfollow(a) ==
  /\ cpc[a] = "fc_send_unfollow"
  /\ LET form == CommunityFollowerForm(call[a].community, call[a].person) IN
       \/ /\ ApiReturn(a, "network")
          /\ UNCHANGED community_follower
       \/ IF unfollow_is_err(form)
            THEN /\ ApiReturn(a, "community_follower_already_exists")
                 /\ UNCHANGED community_follower
            ELSE /\ community_follower' = unfollow(form)
                 /\ ApiReturn(a, "ok")
  /\ UNCHANGED <<activity, person, site_banned, community,
                 community_person_ban, community_moderator, outvars, delvars, postvars, aggvars, adminvars>>

\* BanFromCommunity::perform, lines 595-603: only mods or admins can ban
BanFromCommunity_Auth(a) ==
  /\ cpc[a] = "bc_auth"
  /\ IF ~ is_mod_or_admin(call[a].person, call[a].community)
       THEN ApiReturn(a, "not_a_mod_or_admin")
       ELSE IF call[a].flag THEN ApiGoto(a, "bc_ban")
                            ELSE ApiGoto(a, "bc_unban")
  /\ UNCHANGED <<dbvars, outvars, delvars, postvars, aggvars, adminvars>>

\* lines 604-607: CommunityPersonBan::ban
BanFromCommunity_Ban(a) ==
  /\ cpc[a] = "bc_ban"
  /\ IF ban_is_err(call[a].community, call[a].target)
       THEN /\ ApiReturn(a, "community_user_already_banned")
            /\ UNCHANGED community_person_ban
       ELSE /\ community_person_ban' =
                 community_person_ban \cup {<<call[a].community, call[a].target>>}
            /\ ApiGoto(a, "bc_unfollow")
  /\ UNCHANGED <<activity, person, site_banned, community, community_follower,
                 community_moderator, outvars, delvars, postvars, aggvars, adminvars>>

\* lines 609-619 left out
BanFromCommunity_Unfollow_skipped(a) ==
  /\ cpc[a] = "bc_unfollow"
  /\ ApiReturn(a, "ok")
  /\ UNCHANGED <<dbvars, outvars, delvars, postvars, aggvars, adminvars>>

\* lines 609-619: also unsubscribe them, the result ignored; remove_data is
\* false, and the mod log of lines 655-689 is not a table of this model
BanFromCommunity_Unfollow(a) ==
  /\ cpc[a] = "bc_unfollow"
  /\ community_follower' =
       unfollow(CommunityFollowerForm(call[a].community, call[a].target))
  /\ ApiReturn(a, "ok")
  /\ UNCHANGED <<activity, person, site_banned, community,
                 community_person_ban, community_moderator, outvars, delvars, postvars, aggvars, adminvars>>

\* lines 620-625: CommunityPersonBan::unban
BanFromCommunity_Unban(a) ==
  /\ cpc[a] = "bc_unban"
  /\ community_person_ban' =
       community_person_ban \ {<<call[a].community, call[a].target>>}
  /\ ApiReturn(a, "ok")
  /\ UNCHANGED <<activity, person, site_banned, community, community_follower,
                 community_moderator, outvars, delvars, postvars, aggvars, adminvars>>

\* TransferCommunity::perform (community.rs 766-883). The requests: a local
\* user asks to make the target the creator of community 1.
TransferCalls ==
  [op : {"TransferCommunity"}, person : Members, community : {1},
   target : Members, flag : {TRUE}]

NoSnapshot == [creator |-> 0, mods |-> <<>>]

\* the persons in the sequence q
Range(q) == {q[i] : i \in DOMAIN q}

\* q without p, the order of the others kept
Without(q, p) ==
  LET other(x) == x # p IN SelectSeq(q, other)

\* line 772: the request arrives when no other request is running, and its
\* jwt is accepted
TransferCommunity_Perform(a, c) ==
  /\ cpc[a] = "idle"
  /\ \A a2 \in Calls : a2 < a => cpc[a2] # "idle"
  /\ \A a2 \in Calls : cpc[a2] \in {"idle", "done"}
  /\ call' = [call EXCEPT ![a] = c]
  /\ cpc' = [cpc EXCEPT ![a] = FirstStep(c.op)]
  /\ at_start' = [at_start EXCEPT
                    ![a] = [creator |-> community[c.community].creator_id,
                            mods |-> moderator_order[c.community]]]
  /\ UNCHANGED <<cres, dbvars, outvars, delvars, postvars, aggvars, site,
                 admins, moderator_order, community_mods, read_community>>

\* lines 774-778: Community::read
TransferCommunity_Read(a) ==
  /\ cpc[a] = "tc_read"
  /\ IF ~ community[call[a].community].exists
       THEN /\ ApiReturn(a, "not_found")
            /\ UNCHANGED read_community
       ELSE /\ read_community' =
                 [read_community EXCEPT
                    ![a] = community[call[a].community].creator_id]
            /\ ApiGoto(a, "tc_site")
  /\ UNCHANGED <<dbvars, outvars, delvars, postvars, aggvars, site, admins,
                 moderator_order, community_mods, at_start>>

\* lines 780-783: Site::read(conn, 1)
TransferCommunity_Site(a) ==
  /\ cpc[a] = "tc_site"
  /\ IF site = <<>> THEN ApiReturn(a, "not_found")
                    ELSE ApiGoto(a, "tc_admins")
  /\ UNCHANGED <<dbvars, outvars, delvars, postvars, aggvars, adminvars>>

\* lines 785-803: the admins, with the site creator among them, and the
\* test that the user is the creator of the community or an admin
TransferCommunity_Auth(a) ==
  /\ cpc[a] = "tc_admins"
  /\ IF site[1] \notin admins
       THEN ApiReturn(a, "location_error")
       ELSE IF call[a].person # read_community[a]
               /\ call[a].person \notin admins
         THEN ApiReturn(a, "not_an_admin")
         ELSE ApiGoto(a, "tc_update")
  /\ UNCHANGED <<dbvars, outvars, delvars, postvars, aggvars, adminvars>>

\* lines 805-810: Community::update_creator
TransferCommunity_UpdateCreator(a) ==
  /\ cpc[a] = "tc_update"
  /\ IF ~ community[call[a].community].exists
       THEN /\ ApiReturn(a, "couldnt_update_community")
            /\ UNCHANGED community
       ELSE /\ community' =
                 [community EXCEPT
                    ![call[a].community].creator_id = call[a].target]
            /\ ApiGoto(a, "tc_mods")
  /\ UNCHANGED <<activity, person, site_banned, community_follower,
                 community_person_ban, community_moderator, outvars, delvars,
                 postvars, aggvars, adminvars>>

\* lines 812-823 with the list left in the order it was read
TransferCommunity_Mods_unordered(a) ==
  /\ cpc[a] = "tc_mods"
  /\ IF call[a].target \notin Range(moderator_order[call[a].community])
       THEN /\ ApiReturn(a, "location_error")
            /\ UNCHANGED community_mods
       ELSE /\ community_mods' =
                 [community_mods EXCEPT
                    ![a] = moderator_order[call[a].community]]
            /\ ApiGoto(a, "tc_delete")
  /\ UNCHANGED <<dbvars, outvars, delvars, postvars, aggvars, site, admins,
                 moderator_order, read_community, at_start>>

\* lines 812-823: CommunityModeratorView::for_community, and the new
\* creator, who has to be in the list, moved to its front
TransferCommunity_Mods(a) ==
  /\ cpc[a] = "tc_mods"
  /\ IF call[a].target \notin Range(moderator_order[call[a].community])
       THEN /\ ApiReturn(a, "location_error")
            /\ UNCHANGED community_mods
       ELSE /\ community_mods' =
                 [community_mods EXCEPT
                    ![a] = <<call[a].target>>
                           \o Without(moderator_order[call[a].community],
                                      call[a].target)]
            /\ ApiGoto(a, "tc_delete")
  /\ UNCHANGED <<dbvars, outvars, delvars, postvars, aggvars, site, admins,
                 moderator_order, read_community, at_start>>

\* lines 825-829: CommunityModerator::delete_for_community
TransferCommunity_Delete(a) ==
  /\ cpc[a] = "tc_delete"
  /\ community_moderator' =
       {r \in community_moderator : r[1] # call[a].community}
  /\ moderator_order' = [moderator_order EXCEPT ![call[a].community] = <<>>]
  /\ ApiGoto(a, "tc_join")
  /\ UNCHANGED <<activity, person, site_banned, community, community_follower,
                 community_person_ban, outvars, delvars, postvars, aggvars,
                 site, admins, community_mods, read_community, at_start>>

\* lines 831-842: one turn of the loop that joins the moderators again
TransferCommunity_Join(a) ==
  /\ cpc[a] = "tc_join"
  /\ LET cmod == Head(community_mods[a]) IN
       IF join_is_err(call[a].community, cmod)
         THEN /\ ApiReturn(a, "community_moderator_already_exists")
              /\ UNCHANGED <<community_moderator, moderator_order,
                             community_mods>>
         ELSE /\ community_moderator' =
                   community_moderator \cup {<<call[a].community, cmod>>}
              /\ moderator_order' =
                   [moderator_order EXCEPT
                      ![call[a].community] = Append(@, cmod)]
              /\ community_mods' =
                   [community_mods EXCEPT ![a] = Tail(@)]
              /\ IF Tail(community_mods[a]) = <<>>
                   THEN ApiGoto(a, "tc_view")
                   ELSE ApiGoto(a, "tc_join")
  /\ UNCHANGED <<activity, person, site_banned, community, community_follower,
                 community_person_ban, outvars, delvars, postvars, aggvars,
                 site, admins, read_community, at_start>>

\* lines 844-882: the mod log, which is not a table of this model, and the
\* views of the response
TransferCommunity_View(a) ==
  /\ cpc[a] = "tc_view"
  /\ IF ~ community[call[a].community].exists
       THEN ApiReturn(a, "couldnt_find_community")
       ELSE ApiReturn(a, "ok")
  /\ UNCHANGED <<dbvars, outvars, delvars, postvars, aggvars, adminvars>>

\* ------------------------------------------------------ crates/api site.rs
\* CreateSite::perform (site.rs 143-183); the requests of the local users
SiteCalls ==
  [op : {"CreateSite"}, person : Members, community : {0}, target : {0},
   flag : {TRUE}]

\* lines 150-153: Site::read_simple finds a site or not
CreateSite_Read(a) ==
  /\ cpc[a] = "cs_read"
  /\ IF site # <<>> THEN ApiReturn(a, "site_already_exists")
                    ELSE ApiGoto(a, "cs_auth")
  /\ UNCHANGED <<dbvars, outvars, delvars, postvars, aggvars, adminvars>>

\* lines 155-161: the local user of the jwt has to be an admin
CreateSite_Auth(a) ==
  /\ cpc[a] = "cs_auth"
  /\ IF call[a].person \notin admins THEN ApiReturn(a, "not_an_admin")
                                     ELSE ApiGoto(a, "cs_create")
  /\ UNCHANGED <<dbvars, outvars, delvars, postvars, aggvars, adminvars>>

\* lines 163-178: Site::create inserts the row of the form, whatever rows
\* there are, or returns an error of the storage
CreateSite_Create(a) ==
  /\ cpc[a] = "cs_create"
  /\ \/ /\ site' = Append(site, call[a].person)
        /\ ApiGoto(a, "cs_view")
     \/ /\ ApiReturn(a, "site_already_exists")
        /\ UNCHANGED site
  /\ UNCHANGED <<dbvars, outvars, delvars, postvars, aggvars, admins,
                 moderator_order, community_mods, read_community, at_start>>

\* lines 180-182: SiteView::read and the response
CreateSite_View(a) ==
  /\ cpc[a] = "cs_view"
  /\ ApiReturn(a, "ok")
  /\ UNCHANGED <<dbvars, outvars, delvars, postvars, aggvars, adminvars>>

\* ------------------------------------------------------------ specification
\* The database before any delivery: community 1 is a local community; some
\* persons have rows already, and at most one of them is banned, from the
\* site or from the community.
NoCommunity == [exists |-> FALSE, local |-> FALSE, creator_id |-> 0]

\* nothing delivered and nothing requested yet
InitIdle ==
  /\ activity = [id \in ActivityIds |-> 0]
  /\ call = [a \in Calls |-> NoCall]
  /\ cpc = [a \in Calls |-> "idle"]
  /\ cres = [a \in Calls |-> "none"]
  /\ accepts = [id \in ActivityIds |-> 0]
  /\ announces = [id \in ActivityIds |-> 0]
  /\ content = [id \in ActivityIds |-> 0]
  /\ envelope = [id \in ActivityIds |-> NoEnvelope]
  /\ page = [id \in ActivityIds |-> NoPage]
  /\ post = [o \in PostIds |-> NoPost]
  /\ post_like = [l \in PostIds \X Persons |-> 0]
  /\ comment = [c \in CommentIds |-> NoComment]
  /\ post_aggregates = [o \in PostIds |-> NoAggregates]
  /\ comment_like = [l \in CommentIds \X Persons |-> 0]
  /\ person_aggregates = [p \in Persons |-> ZeroPersonAggregates]
  /\ act = [d \in Deliveries |-> 1]
  /\ path = [d \in Deliveries |-> 1]
  /\ sig_ok = [d \in Deliveries |-> FALSE]
  /\ pc = [d \in Deliveries |-> "idle"]
  /\ resp = [d \in Deliveries |-> "none"]
  /\ err = [d \in Deliveries |-> "None"]
  /\ effects = [d \in Deliveries |-> {}]
  /\ known_at_start = [d \in Deliveries |-> FALSE]
  /\ pred = [d \in Deliveries |-> {}]
  /\ community_mods = [a \in Calls |-> <<>>]
  /\ read_community = [a \in Calls |-> 0]
  /\ at_start = [a \in Calls |-> NoSnapshot]

\* the sequences without repetition of the persons in S
OrdersOf(S) ==
  {q \in UNION {[1..n -> S] : n \in 0..Cardinality(S)} :
     \A i, j \in DOMAIN q : i # j => q[i] # q[j]}

\* the persons with a community_moderator row of community c
ModeratorsOf(c) ==
  {p \in Persons \cup Members : <<c, p>> \in community_moderator}

\* the site of a running node, made by the local person 2, its admin; the
\* moderator rows of each community are in some order
InitAdmin ==
  /\ site = <<2>>
  /\ admins = {2}
  /\ moderator_order \in [CommunityIds -> OrdersOf(Persons \cup Members)]
  /\ \A c \in CommunityIds :
       /\ Len(moderator_order[c]) = Cardinality(ModeratorsOf(c))
       /\ \A p \in ModeratorsOf(c) :
            \E i \in DOMAIN moderator_order[c] : moderator_order[c][i] = p

\* The database of a running node: the local persons and some remote ones
\* have rows, at most one remote person is banned, from the site or from the
\* community, and community 1 is as CreateCommunity of person 2 left it.
Init ==
  /\ InitIdle
  /\ \E known \in SUBSET RemotePersons : person = LocalPersons \cup known
  /\ site_banned \in SUBSET (person \cap RemotePersons)
  /\ community_person_ban \in SUBSET ({1} \X (person \cap RemotePersons))
  /\ Cardinality(site_banned) + Cardinality(community_person_ban) <= 1
  /\ community = [c \in CommunityIds |->
                    IF c = 1
                      THEN [exists |-> TRUE, local |-> TRUE, creator_id |-> 2]
                      ELSE NoCommunity]
  /\ community_moderator = {<<1, 2>>}
  /\ community_follower =
       [r \in FollowerRows |-> IF r = <<1, 2, FALSE>> THEN 1 ELSE 0]
  /\ InitAdmin

Next ==
  \/ \E d \in Deliveries, id \in ActivityIds, e \in SoundEnvelopes,
          s \in BOOLEAN, p \in CommunityIds :
       InboxOf(e, p) /\ Deliver(d, id, e, s, p)
  \/ \E d \in Deliveries : inbox_verify_http_signature(d)
  \/ \E d \in Deliveries : ActorUnresolvable(d)
  \/ \E d \in Deliveries : CheckAlreadyKnown(d)
  \/ \E d \in Deliveries : CheckAddressing(d)
  \/ \E d \in Deliveries : InsertActivity(d)
  \/ \E d \in Deliveries : ReadPerson(d)
  \/ \E d \in Deliveries : CheckBanAndDispatch(d)
  \/ \E d \in Deliveries : HandleFollow(d)
  \/ \E d \in Deliveries : SendAcceptFollow(d)
  \/ \E d \in Deliveries : UndoReadPerson(d)
  \/ \E d \in Deliveries : HandleUndoFollow(d)
  \/ \E d \in Deliveries : ReceiveForCommunity(d)
  \/ \E d \in Deliveries : ReceiveForCommunityErr(d)
  \/ \E d \in Deliveries : Announce(d)
  \/ \E d \in Deliveries : StorageFault(d)
  \/ \E d \in Deliveries : NetworkFault(d)
  \/ \E d \in Deliveries : Abandon(d)

Spec == Init /\ [][Next]_vars

\* ------------------------------------------------------------ replay claims
HandlerEffects == {"follow", "unfollow", "accept", "content", "announce"}

\* the delivery is one a well-behaved node makes: signed by the actor,
\* addressed to the community of the path, with an id of the sender's
WellFormed(d) ==
  /\ sig_ok[d]
  /\ path[d] \in Env(d).to /\ ~ Env(d).local_id /\ Env(d).domains_valid
  /\ community[path[d]].exists /\ community[path[d]].local

\* the delivery is over and no collaborator failed under it
Completed(d) == pc[d] = "done" /\ err[d] \notin Faults

\* d1 and d2 are two deliveries of one activity id
SameActivity(d1, d2) ==
  /\ d1 # d2 /\ pc[d1] # "idle" /\ pc[d2] # "idle" /\ act[d1] = act[d2]

\* C1: a delivery that arrives when the Dedup Record of its id exists makes
\* no Dedup Record, no follower change, no content mutation, no Accept and
\* no announce, and is answered with 200.
C1_ReplayIsNoOp ==
  \A d \in Deliveries :
    (pc[d] # "idle" /\ known_at_start[d]) =>
      /\ effects[d] \cap (HandlerEffects \cup {"dedup"}) = {}
      /\ (Completed(d) /\ sig_ok[d]) => resp[d] = "200"

C1_Witness ==
  \E d1, d2 \in Deliveries :
    /\ SameActivity(d1, d2) /\ d1 \in pred[d2]
    /\ "dedup" \in effects[d1] /\ known_at_start[d2]
    /\ pc[d2] = "done" /\ resp[d2] = "200" /\ effects[d2] = {}

\* C2: however the steps of two deliveries of one id interleave, the id has
\* at most one Dedup Record (exactly one once a well-formed delivery went
\* through), and at most one of the deliveries applied a handler effect.
C2_OneRecordOneEffect ==
  \A id \in ActivityIds :
    /\ activity[id] <= 1
    /\ Cardinality({d \in Deliveries : pc[d] # "idle" /\ act[d] = id
                      /\ effects[d] \cap (HandlerEffects \cup {"dedup"}) # {}}) <= 1
    /\ (\E d \in Deliveries : act[d] = id /\ Completed(d) /\ WellFormed(d))
         => activity[id] = 1

\* two deliveries of one id that both passed the lookup before either insert
C2_Witness ==
  \E d1, d2 \in Deliveries :
    /\ SameActivity(d1, d2) /\ d1 \notin pred[d2] /\ d2 \notin pred[d1]
    /\ ~ known_at_start[d1] /\ ~ known_at_start[d2]
    /\ pc[d1] = "done" /\ pc[d2] = "done"
    /\ "dedup" \in effects[d1] /\ effects[d1] \cap HandlerEffects # {}
    /\ err[d2] = "UniqueViolation"
    /\ activity[act[d1]] = 1

\* C3: the delivery that loses the race for the Dedup Record is answered
\* with 200, never with an error.
C3_LoserGets200 ==
  \A d1, d2 \in Deliveries :
    (/\ SameActivity(d1, d2) /\ "dedup" \in effects[d1]
     /\ Completed(d2) /\ WellFormed(d2)) => resp[d2] = "200"

\* C4: send_announce is invoked at most once per activity id.
C4_AnnounceAtMostOnce == \A id \in ActivityIds : announces[id] <= 1

C4_Witness ==
  \E d1, d2 \in Deliveries :
    /\ SameActivity(d1, d2) /\ pc[d1] = "done" /\ pc[d2] = "done"
    /\ sig_ok[d1] /\ sig_ok[d2]
    /\ announces[act[d1]] = 1

\* C5: a delivery rejected for its signature has changed nothing in
\* storage, the actor rows included.
C5_RejectedChangedNothing ==
  \A d \in Deliveries : err[d] = "SignatureInvalid" => effects[d] = {}

\* C6: when a delivery failed or was abandoned after its Dedup Record was
\* inserted and before its handler was through, a later delivery of the
\* same id under which no collaborator fails gets the activity handled to
\* the end.
C6_RedeliveryCompletes ==
  \A d1, d2 \in Deliveries :
    (/\ SameActivity(d1, d2) /\ d1 \in pred[d2]
     /\ "dedup" \in effects[d1] /\ err[d1] \in Faults
     /\ Completed(d2) /\ WellFormed(d2))
    => \E d \in Deliveries :
         act[d] = act[d1] /\ pc[d] = "done" /\ err[d] = "None"

\* ------------------------------------------------- follow handshake claims
\* the (community, person) pair a delivery is about
Pair(d) == <<path[d], Env(d).actor>>

\* d is a delivery of the given kind that went through to its 200
Accepted(d, kind, inner) ==
  /\ pc[d] = "done" /\ resp[d] = "200" /\ err[d] = "None"
  /\ Env(d).kind = kind /\ Env(d).inner = inner

\* the actor of d is banned neither from the site nor from the community
NotBanned(d) ==
  /\ Env(d).actor \notin site_banned
  /\ ~ is_banned(Env(d).actor, path[d])

\* C7: when an Undo(Follow) is accepted, the pair of its person and its
\* community has no Follower Relation, also when a Follow of the pair was
\* accepted before.
C7_FollowThenUndoLeavesNone ==
  [][\A d \in Deliveries :
       (pc[d] = "unfollow" /\ pc'[d] = "done" /\ resp'[d] = "200")
         => FollowerCount(Pair(d)[1], Pair(d)[2])' = 0]_vars

C7_Witness ==
  \E d1, d2 \in Deliveries :
    /\ d1 \in pred[d2] /\ act[d1] # act[d2] /\ Pair(d1) = Pair(d2)
    /\ Accepted(d1, "Follow", "None") /\ "follow" \in effects[d1]
    /\ Accepted(d2, "Undo", "Follow") /\ "unfollow" \in effects[d2]
    /\ FollowerCount(Pair(d1)[1], Pair(d1)[2]) = 0

\* C8: a Follow of a pair that has a Follower Relation leaves exactly one
\* relation for the pair and goes on to send its Accept: the uniqueness
\* violation is not an error of the delivery.
C8_RepeatFollowAbsorbed ==
  [][\A d \in Deliveries :
       (/\ pc[d] = "follow" /\ pc'[d] # "follow" /\ err'[d] \notin Faults
        /\ FollowerCount(Pair(d)[1], Pair(d)[2]) >= 1)
         => /\ FollowerCount(Pair(d)[1], Pair(d)[2])' = 1
            /\ pc'[d] = "accept"]_vars

C8_Witness ==
  \E d1, d2 \in Deliveries :
    /\ d1 \in pred[d2] /\ act[d1] # act[d2] /\ Pair(d1) = Pair(d2)
    /\ Accepted(d1, "Follow", "None") /\ "follow" \in effects[d1]
    /\ Accepted(d2, "Follow", "None") /\ "follow" \notin effects[d2]
    /\ FollowerCount(Pair(d1)[1], Pair(d1)[2]) = 1

\* C10: a first-seen, well-formed Follow of a person who is not banned and
\* does not follow yet creates the one relation (community, person,
\* pending = false) of the pair; when no collaborator fails it is answered
\* with 200 after exactly one Accept, and it is never announced.
C10_FirstFollow ==
  /\ [](\A d \in Deliveries :
          (/\ pc[d] # "idle" /\ Env(d).kind = "Follow"
           /\ "dedup" \in effects[d])
          => /\ announces[act[d]] = 0
             /\ accepts[act[d]] <= 1
             /\ (Completed(d) /\ WellFormed(d) /\ NotBanned(d))
                  => resp[d] = "200" /\ accepts[act[d]] = 1)
  /\ [][\A d \in Deliveries :
          (/\ pc[d] = "follow" /\ pc'[d] # "follow" /\ err'[d] \notin Faults
           /\ FollowerCount(Pair(d)[1], Pair(d)[2]) = 0)
            => /\ community_follower'[<<Pair(d)[1], Pair(d)[2], FALSE>>] = 1
               /\ community_follower'[<<Pair(d)[1], Pair(d)[2], TRUE>>] = 0]_vars

C10_Witness ==
  \E d \in Deliveries :
    /\ Accepted(d, "Follow", "None") /\ ~ known_at_start[d]
    /\ {"dedup", "follow", "accept"} \subseteq effects[d]
    /\ community_follower[<<Pair(d)[1], Pair(d)[2], FALSE>>] = 1
    /\ accepts[act[d]] = 1 /\ announces[act[d]] = 0

\* ------------------------------------------- inbox and API on the same tables
\* the Follow and Undo(Follow) activities
FollowEnvelopes ==
  {e \in SoundEnvelopes :
     e.kind = "Follow" \/ (e.kind = "Undo" /\ e.inner = "Follow")}

\* a fresh node: the persons have rows, nobody is banned, no community yet
InitApi ==
  /\ InitIdle
  /\ person = Persons
  /\ site_banned = {}
  /\ community_person_ban = {}
  /\ community = [c \in CommunityIds |-> NoCommunity]
  /\ community_moderator = {}
  /\ community_follower = [r \in FollowerRows |-> 0]
  /\ InitAdmin

NextApi ==
  \/ \E d \in Deliveries, id \in ActivityIds, e \in FollowEnvelopes :
       \E p \in CommunityIds : InboxOf(e, p) /\ Deliver(d, id, e, TRUE, p)
  \/ \E d \in Deliveries : inbox_verify_http_signature(d)
  \/ \E d \in Deliveries : CheckAlreadyKnown(d)
  \/ \E d \in Deliveries : CheckAddressing(d)
  \/ \E d \in Deliveries : InsertActivity(d)
  \/ \E d \in Deliveries : ReadPerson(d)
  \/ \E d \in Deliveries : CheckBanAndDispatch(d)
  \/ \E d \in Deliveries : HandleFollow(d)
  \/ \E d \in Deliveries : SendAcceptFollow(d)
  \/ \E d \in Deliveries : UndoReadPerson(d)
  \/ \E d \in Deliveries : HandleUndoFollow(d)
  \/ \E a \in Calls, c \in ApiCalls : Perform(a, c)
  \/ \E a \in Calls : CreateCommunity_DupeCheck(a)
  \/ \E a \in Calls : CreateCommunity_Create(a)
  \/ \E a \in Calls : CreateCommunity_Join(a)
  \/ \E a \in Calls : CreateCommunity_Follow(a)
  \/ \E a \in Calls : FollowCommunity_Read(a)
  \/ \E a \in Calls : FollowCommunity_CheckBan(a)
  \/ \E a \in Calls : FollowCommunity_Follow(a)
  \/ \E a \in Calls : FollowCommunity_Unfollow(a)
  \/ \E a \in Calls : BanFromCommunity_Auth(a)
  \/ \E a \in Calls : BanFromCommunity_Ban(a)
  \/ \E a \in Calls : BanFromCommunity_Unfollow(a)
  \/ \E a \in Calls : BanFromCommunity_Unban(a)

SpecApi == InitApi /\ [][NextApi]_vars

\* C9: there is at most one Follower Relation per (community, person) pair,
\* whatever Follow and Undo(Follow) deliveries and CreateCommunity,
\* FollowCommunity and BanFromCommunity calls have run or are running.
C9_OneRelationPerPair ==
  \A c \in CommunityIds, p \in Persons : FollowerCount(c, p) <= 1

\* one pair followed twice from the inbox, another twice from the API
C9_Witness ==
  /\ \E d1, d2 \in Deliveries :
       /\ Accepted(d1, "Follow", "None") /\ Accepted(d2, "Follow", "None")
       /\ act[d1] # act[d2] /\ Pair(d1) = Pair(d2)
       /\ FollowerCount(Pair(d1)[1], Pair(d1)[2]) = 1
  /\ \E a1, a2 \in Calls :
       /\ a1 # a2 /\ cres[a1] = "ok" /\ cres[a2] # "none"
       /\ call[a1].op = "CreateCommunity"
       /\ call[a2].op = "FollowCommunity" /\ call[a2].flag
       /\ call[a2].community = call[a1].community
       /\ call[a2].person = call[a1].person
       /\ cres[a2] = "community_follower_already_exists"
       /\ FollowerCount(call[a1].community, call[a1].person) = 1

\* ---------------------------------------------------- ban and routing claims
\* the activity kinds whose arm of the match calls a content handler
ContentKinds == {"Create", "Update", "Like", "Dislike", "Delete"}

\* the sender of d is banned from the site or from the community of the path
Banned(d) ==
  Env(d).actor \in site_banned \/ is_banned(Env(d).actor, path[d])

\* d is a delivery of a Follow or of an Undo that wraps a Follow
IsFollowOrUndoFollow(d) ==
  /\ pc[d] # "idle"
  /\ Env(d).kind = "Follow" \/ (Env(d).kind = "Undo" /\ Env(d).inner = "Follow")

\* C16: while its sender is banned from the site or from the recipient
\* community, no step of a delivery of a Create, Update, Like, Dislike or
\* Delete changes a post, comment or vote or calls send_announce.
C16_BannedNeverMutates ==
  [][\A d \in Deliveries :
       (pc[d] # "idle" /\ Env(d).kind \in ContentKinds /\ Banned(d))
         => /\ effects'[d] \cap {"content", "announce"}
                 = effects[d] \cap {"content", "announce"}
            /\ content'[act[d]] = content[act[d]]
            /\ announces'[act[d]] = announces[act[d]]]_vars

\* a community-banned sender's content activity was stopped at the ban check
C16_Witness ==
  \E d \in Deliveries :
    /\ pc[d] = "done" /\ err[d] = "ActorBanned"
    /\ Env(d).kind \in ContentKinds
    /\ is_banned(Env(d).actor, path[d])
    /\ "dedup" \in effects[d] /\ content[act[d]] = 0 /\ announces[act[d]] = 0

\* C17: a first-seen activity of a banned sender is answered with 200.
C17_BannedGets200 ==
  \A d \in Deliveries :
    (/\ pc[d] = "done" /\ err[d] \notin Faults
     /\ WellFormed(d) /\ "dedup" \in effects[d]
     /\ Banned(d))
      => resp[d] = "200"

\* C18: send_announce is never called for a Follow or for an Undo that wraps
\* a Follow, whether its handler succeeded or failed.
C18_FollowNeverAnnounced ==
  \A d \in Deliveries :
    IsFollowOrUndoFollow(d) =>
      "announce" \notin effects[d] /\ announces[act[d]] = 0

\* a Follow and an Undo(Follow) both went through their handlers
C18_Witness ==
  \E d1, d2 \in Deliveries :
    /\ Accepted(d1, "Follow", "None") /\ "accept" \in effects[d1]
    /\ Accepted(d2, "Undo", "Follow") /\ "unfollow" \in effects[d2]
    /\ announces[act[d1]] = 0 /\ announces[act[d2]] = 0

\* C19: a Remove that was admitted (its Dedup Record inserted) changes no
\* post, comment, community or Follower Relation and is not announced, and
\* when its sender is not banned the delivery returns 200.
C19_RemoveIsNoOp ==
  /\ [](\A d \in Deliveries :
         (pc[d] # "idle" /\ Env(d).kind = "Remove") =>
           /\ effects[d] \cap HandlerEffects = {}
           /\ content[act[d]] = 0 /\ announces[act[d]] = 0
           /\ (pc[d] = "done" /\ err[d] \notin Faults
                 /\ "dedup" \in effects[d] /\ ~ Banned(d))
                => (resp[d] = "200" /\ err[d] = "None"))
  /\ [][\A d \in Deliveries :
          (pc[d] \in {"person", "ban"} /\ pc'[d] # pc[d]
             /\ Env(d).kind = "Remove")
            => UNCHANGED <<community, community_follower, content,
                           announces>>]_vars

C19_Witness ==
  \E d \in Deliveries :
    /\ Accepted(d, "Remove", "None") /\ "dedup" \in effects[d]
    /\ ~ Banned(d) /\ effects[d] \cap HandlerEffects = {}

\* C20: an Undo that wraps a Remove is not announced.
C20_UndoRemoveNotAnnounced ==
  \A d \in Deliveries :
    (pc[d] # "idle" /\ Env(d).kind = "Undo" /\ Env(d).inner = "Remove")
      => "announce" \notin effects[d]

\* ------------------------------------------------ deliveries that the inbox
\* ------------------------------------------------ has to turn away
\* Follow and Create activities, sound or with one flag off, whose Follow
\* object is any community of the node or none
RejectEnvelopes == {e \in Envelopes : e.kind \in {"Follow", "Create"}}

\* a node with every community created by local person 2, the remote
\* persons known, and nobody banned or following
InitReject ==
  /\ InitIdle
  /\ person = Persons
  /\ site_banned = {}
  /\ community_person_ban = {}
  /\ community = [c \in CommunityIds |->
                    [exists |-> TRUE, local |-> TRUE, creator_id |-> 2]]
  /\ community_moderator = {<<c, 2>> : c \in CommunityIds}
  /\ community_follower = [r \in FollowerRows |-> 0]
  /\ InitAdmin

\* validly signed deliveries to the inbox of any community, whatever the
\* activity's addressing
NextReject ==
  \/ \E d \in Deliveries, id \in ActivityIds, e \in RejectEnvelopes,
          p \in CommunityIds : Deliver(d, id, e, TRUE, p)
  \/ \E d \in Deliveries : inbox_verify_http_signature(d)
  \/ \E d \in Deliveries : CheckAlreadyKnown(d)
  \/ \E d \in Deliveries : CheckAddressing(d)
  \/ \E d \in Deliveries : InsertActivity(d)
  \/ \E d \in Deliveries : ReadPerson(d)
  \/ \E d \in Deliveries : CheckBanAndDispatch(d)
  \/ \E d \in Deliveries : HandleFollow(d)
  \/ \E d \in Deliveries : SendAcceptFollow(d)
  \/ \E d \in Deliveries : ReceiveForCommunity(d)
  \/ \E d \in Deliveries : Announce(d)

SpecReject == InitReject /\ [][NextReject]_vars

\* the addressing of d does not contain the community of the inbox path
MisAddressed(d) == pc[d] # "idle" /\ path[d] \notin Env(d).to

\* C11: a Follow whose object is another community than the one whose inbox
\* received it creates no Follower Relation for the receiving community.
C11_FollowOfOtherCommunity ==
  \A d \in Deliveries :
    (pc[d] # "idle" /\ Env(d).kind = "Follow" /\ Env(d).object # path[d])
      => "follow" \notin effects[d]

\* C14 as stated: every finished delivery of a mis-addressed activity was
\* answered with the NotAddressedHere error.
C14_MisAddressedRejected ==
  \A d \in Deliveries :
    (MisAddressed(d) /\ pc[d] = "done")
      => (resp[d] = "error" /\ err[d] = "NotAddressedHere")

\* C14: a delivery of a mis-addressed activity inserts no Dedup Record and
\* runs no handler; it is answered with the NotAddressedHere error unless
\* the Dedup Record of its id existed at the lookup, and then with 200.
C14_MisAddressedNoEffect ==
  \A d \in Deliveries :
    MisAddressed(d) =>
      /\ effects[d] \cap (HandlerEffects \cup {"dedup"}) = {}
      /\ pc[d] = "done" =>
           \/ resp[d] = "error" /\ err[d] = "NotAddressedHere"
           \/ resp[d] = "200" /\ err[d] = "AlreadySeen" /\ activity[act[d]] = 1

\* a first-seen activity delivered to an inbox it does not name was turned
\* away and left no Dedup Record
C14_Witness ==
  \E d \in Deliveries :
    /\ MisAddressed(d) /\ pc[d] = "done" /\ ~ known_at_start[d]
    /\ resp[d] = "error" /\ err[d] = "NotAddressedHere"
    /\ activity[act[d]] = 0 /\ effects[d] = {}

\* C15: a delivery of an activity whose id is of the local domain is answered
\* with an error, the ForeignActivity error when its addressing names the
\* inbox, and inserts no Dedup Record and runs no handler.
C15_LocalIdRejected ==
  \A d \in Deliveries :
    (pc[d] # "idle" /\ Env(d).local_id) =>
      /\ effects[d] \cap (HandlerEffects \cup {"dedup"}) = {}
      /\ activity[act[d]] = 0
      /\ pc[d] = "done" =>
           /\ resp[d] = "error"
           /\ ~ MisAddressed(d) => err[d] = "ForeignActivity"

C15_Witness ==
  \E d \in Deliveries :
    /\ pc[d] = "done" /\ Env(d).local_id /\ ~ MisAddressed(d)
    /\ resp[d] = "error" /\ err[d] = "ForeignActivity"
    /\ activity[act[d]] = 0 /\ effects[d] = {}

\* ----------------------------------------------- inbound post translation
\* the Create activities a well-behaved node addresses to community 1
PageEnvelopes == {e \in SoundEnvelopes : e.kind = "Create" /\ e.to = {1}}

\* community 1 is local and community 2, if it has a row, is remote; at most
\* one person is banned, from the site or from a community
InitPost ==
  /\ InitIdle
  /\ person = Persons
  /\ site_banned \in SUBSET Persons
  /\ community_person_ban \in SUBSET (CommunityIds \X Persons)
  /\ Cardinality(site_banned) + Cardinality(community_person_ban) <= 1
  /\ \E c2 \in {NoCommunity,
                 [exists |-> TRUE, local |-> FALSE, creator_id |-> 0]} :
       community = [c \in CommunityIds |->
                      IF c = 1
                        THEN [exists |-> TRUE, local |-> TRUE, creator_id |-> 2]
                        ELSE c2]
  /\ community_moderator = {<<1, 2>>}
  /\ community_follower = [r \in FollowerRows |-> 0]
  /\ InitAdmin

NextPost ==
  \/ \E d \in Deliveries, id \in ActivityIds, e \in PageEnvelopes :
       Deliver(d, id, e, TRUE, 1)
  \/ \E d \in Deliveries : inbox_verify_http_signature(d)
  \/ \E d \in Deliveries : CheckAlreadyKnown(d)
  \/ \E d \in Deliveries : CheckAddressing(d)
  \/ \E d \in Deliveries : InsertActivity(d)
  \/ \E d \in Deliveries : ReadPerson(d)
  \/ \E d \in Deliveries : CheckBanAndDispatch(d)
  \/ \E d \in Deliveries, pg \in Pages : ReceivePage(d, pg)
  \/ \E d \in Deliveries : TranslateCreator(d)
  \/ \E d \in Deliveries : TranslateCommunity(d)
  \/ \E d \in Deliveries : TranslateFetch(d)
  \/ \E d \in Deliveries : TranslateForm(d)
  \/ \E d \in Deliveries : UpsertPost(d)
  \/ \E d \in Deliveries : CheckObjectBan(d)
  \/ \E d \in Deliveries : Announce(d)

SpecPost == InitPost /\ [][NextPost]_vars

\* the Page of d was handed to the translation
Translated(d) == pc[d] # "idle" /\ "page" \in effects[d]

\* what the translation of a Page does besides producing the form
TranslationEffects == {"dedup", "creator", "community", "fetch", "content"}

\* C12: a Page whose id is of another domain than the expected one makes the
\* delivery end with an error, the DomainMismatch error when the name passed
\* the slur check that precedes the domain check, and no step of the
\* delivery creates or updates a post.
C12_MismatchRejected ==
  /\ [](\A d \in Deliveries :
         (Translated(d) /\ ~ Page(d).domain_ok) =>
           /\ "content" \notin effects[d]
           /\ pc[d] = "done" =>
                /\ resp[d] = "error"
                /\ check_slurs(Page(d).name) => err[d] = "DomainMismatch")
  /\ [][\A d \in Deliveries :
          (Translated(d) /\ ~ Page(d).domain_ok /\ pc'[d] # pc[d])
            => post' = post]_vars

\* a Create with a Page of another domain was turned away at the domain
\* check and the post it names does not exist
C12_Witness ==
  \E d \in Deliveries :
    /\ Translated(d) /\ pc[d] = "done" /\ ~ Page(d).domain_ok
    /\ resp[d] = "error" /\ err[d] = "DomainMismatch"
    /\ ~ post[Page(d).id].exists

\* C13: a delivery rejected with DomainMismatch inserted no Dedup Record,
\* created or refreshed no creator or community row, triggered no link
\* metadata fetch and wrote no post.
C13_MismatchNoSideEffects ==
  \A d \in Deliveries :
    (pc[d] = "done" /\ err[d] = "DomainMismatch")
      => effects[d] \cap TranslationEffects = {}

\* -------------------------------------------- announce and ordering claims
\* the positions of community_receive_message and of the handlers under it
HandlerSteps ==
  {"person", "ban", "follow", "accept", "undo_person", "unfollow", "content",
   "announce"}

\* C21: a public Create, Update, Like, Dislike or Delete whose handler
\* returned success is announced exactly once: the step after the handler
\* calls send_announce once, and a delivery that ran to its response after
\* the handler leaves one announce of the activity; a delivery whose handler
\* returned an error leaves none.
C21_AnnouncedOnceOnSuccess ==
  /\ [](\A d \in Deliveries :
         (pc[d] = "done" /\ Env(d).kind \in ContentKinds /\ Env(d).public) =>
           /\ ("content" \in effects[d] /\ err[d] # "Abandoned")
                => ("announce" \in effects[d] /\ announces[act[d]] = 1)
           /\ err[d] = "Handler"
                => ("announce" \notin effects[d] /\ announces[act[d]] = 0))
  /\ [][\A d \in Deliveries :
          (pc[d] = "announce" /\ pc'[d] = "done" /\ err'[d] # "Abandoned"
             /\ Env(d).kind \in ContentKinds /\ Env(d).public)
            => announces'[act[d]] = announces[act[d]] + 1]_vars

\* one content activity went through handler and announce, another one's
\* handler failed
C21_Witness ==
  \E d1, d2 \in Deliveries :
    /\ pc[d1] = "done" /\ pc[d2] = "done"
    /\ Env(d1).kind \in ContentKinds /\ Env(d2).kind \in ContentKinds
    /\ resp[d1] = "200" /\ "content" \in effects[d1]
    /\ announces[act[d1]] = 1
    /\ err[d2] = "Handler" /\ announces[act[d2]] = 0

\* C22: send_announce is never called for an activity that is not addressed
\* to public; the delivery of one whose handler succeeded ends with the
\* addressing error.
C22_NotPublicNeverAnnounced ==
  \A d \in Deliveries :
    (pc[d] # "idle" /\ ~ Env(d).public) =>
      /\ "announce" \notin effects[d]
      /\ announces[act[d]] = 0
      /\ (pc[d] = "done" /\ "content" \in effects[d]) => err[d] = "NotPublic"

C22_Witness ==
  \E d \in Deliveries :
    /\ pc[d] = "done" /\ ~ Env(d).public /\ "content" \in effects[d]
    /\ resp[d] = "error" /\ err[d] = "NotPublic" /\ announces[act[d]] = 0

\* C23: a delivery looks up and inserts the Dedup Record only after its
\* signature was verified, is in no handler and has applied no handler
\* effect before it inserted the Dedup Record, and calls send_announce only
\* after its content handler returned success.
C23_StepsOrdered ==
  \A d \in Deliveries :
    /\ (pc[d] \in {"known", "community", "insert"} \cup HandlerSteps)
         => sig_ok[d]
    /\ "dedup" \in effects[d] => sig_ok[d]
    /\ (pc[d] \in HandlerSteps \/ effects[d] \cap HandlerEffects # {})
         => "dedup" \in effects[d]
    /\ (pc[d] = "announce" \/ "announce" \in effects[d])
         => "content" \in effects[d]

\* a delivery announced, and it had its signature verified, its Dedup
\* Record inserted and its handler applied
C23_Witness ==
  \E d \in Deliveries :
    /\ pc[d] = "done" /\ resp[d] = "200" /\ sig_ok[d]
    /\ {"dedup", "content", "announce"} \subseteq effects[d]

\* C24: the step of handle_undo_follow for a person who has no Follower
\* Relation with the community ends the delivery with 200 and leaves the
\* Follower Relations as they were.
C24_UndoWithoutRelation ==
  [][\A d \in Deliveries :
       (/\ pc[d] = "unfollow" /\ pc'[d] = "done" /\ err'[d] \notin Faults
        /\ FollowerCount(path[d], Env(d).actor) = 0)
         => /\ resp'[d] = "200"
            /\ community_follower' = community_follower]_vars

\* an Undo(Follow) of a person who never followed was answered with 200
C24_Witness ==
  \E d \in Deliveries :
    /\ Accepted(d, "Undo", "Follow") /\ "unfollow" \notin effects[d]
    /\ "dedup" \in effects[d]
    /\ FollowerCount(path[d], Env(d).actor) = 0

\* ------------------------------------------------ post translation claims
\* the creator of d's Page is banned from the site or from the community
\* of the Page
CreatorBanned(d) ==
  \/ Page(d).creator \in site_banned
  \/ is_banned(Page(d).creator, Page(d).community)

\* C25: the translation of a Page whose creator is banned from the site or
\* from the Page's community persists or updates no post.
C25_BannedCreatorNoPost ==
  \A d \in Deliveries :
    (Translated(d) /\ CreatorBanned(d)) => "content" \notin effects[d]

\* C26: a Page whose name contains a denylisted word is rejected and no post
\* is stored for it; the body a translation stores has the length of the
\* Page's body, no denylisted word, and every other word of the Page's
\* body in its place.
C26_FilterAsymmetric ==
  /\ [](\A d \in Deliveries :
         (Translated(d) /\ ~ check_slurs(Page(d).name)) =>
           /\ "content" \notin effects[d]
           /\ pc[d] = "done" => (resp[d] = "error" /\ err[d] = "Slur"))
  /\ [][\A d \in Deliveries :
          (pc[d] = "tr_upsert" /\ pc'[d] # pc[d]) =>
            LET stored == post'[Page(d).id].body
                body == Page(d).body IN
              /\ check_slurs(Page(d).name)
              /\ post'[Page(d).id].name = Page(d).name
              /\ Len(stored) = Len(body)
              /\ \A i \in DOMAIN body :
                   /\ stored[i] \notin Denylist
                   /\ body[i] \notin Denylist => stored[i] = body[i]]_vars

\* one Page was rejected for its name, and the post of another is stored
\* with the denylisted word of its body removed
C26_Witness ==
  /\ \E d \in Deliveries :
       /\ Translated(d) /\ pc[d] = "done" /\ ~ check_slurs(Page(d).name)
       /\ err[d] = "Slur" /\ "content" \notin effects[d]
  /\ \E d \in Deliveries :
       /\ Translated(d) /\ "content" \in effects[d]
       /\ ~ check_slurs(Page(d).body)
       /\ post[Page(d).id].exists
       /\ post[Page(d).id].body = <<"some", "*removed*", "text">>

\* -------------------------------------- FollowCommunity of the API by itself
\* the FollowCommunity requests
FollowCalls == {c \in ApiCalls : c.op = "FollowCommunity"}

\* the follower rows a local person can have: of the local community 1
\* after FollowCommunity, of the remote community 2 after its Accept
InitFollowerRows == {<<1, 2, FALSE>>, <<2, 2, FALSE>>}

\* community 1 is local and community 2 is remote; the local person 2 may
\* follow either already, or be banned from community 1
InitFollow ==
  /\ InitIdle
  /\ person = Persons
  /\ site_banned = {}
  /\ community =
       [c \in CommunityIds |->
          IF c = 1 THEN [exists |-> TRUE, local |-> TRUE, creator_id |-> 2]
                   ELSE [exists |-> TRUE, local |-> FALSE, creator_id |-> 0]]
  /\ community_moderator = {<<1, 2>>}
  /\ community_person_ban \in SUBSET {<<1, 2>>}
  /\ \E rows \in SUBSET InitFollowerRows :
       /\ community_person_ban # {} => <<1, 2, FALSE>> \notin rows
       /\ community_follower =
            [r \in FollowerRows |-> IF r \in rows THEN 1 ELSE 0]
  /\ InitAdmin

NextFollow ==
  \/ \E a \in Calls, c \in FollowCalls : Perform(a, c)
  \/ \E a \in Calls : FollowCommunity_Read(a)
  \/ \E a \in Calls : FollowCommunity_CheckBan(a)
  \/ \E a \in Calls : FollowCommunity_Follow(a)
  \/ \E a \in Calls : FollowCommunity_Unfollow(a)
  \/ \E a \in Calls : FollowCommunity_SendFollow(a)
  \/ \E a \in Calls : FollowCommunity_SendUnfollow(a)

SpecFollow == InitFollow /\ [][NextFollow]_vars

\* a is a FollowCommunity request with follow = true for a local (or, with
\* local = FALSE, a remote) community, at or past its first step
FollowRequest(a, local) ==
  /\ cpc[a] # "idle" /\ call[a].op = "FollowCommunity" /\ call[a].flag
  /\ community[call[a].community].exists
  /\ community[call[a].community].local = local

\* C27: FollowCommunity with follow = true for a local community: when the
\* person is banned from the community the ban lookup ends the call with an
\* error and the Follower Relations stay as they were; the follow step of a
\* person who is not a follower yet returns success and leaves the one row
\* of the pair, with pending = false.
C27_LocalFollow ==
  /\ [](\A a \in Calls :
         (FollowRequest(a, TRUE) /\ cpc[a] = "fc_follow")
           => ~ is_banned(call[a].person, call[a].community))
  /\ [][\A a \in Calls :
          (FollowRequest(a, TRUE) /\ cpc'[a] # cpc[a]) =>
            /\ (cpc[a] = "fc_ban"
                  /\ is_banned(call[a].person, call[a].community))
                 => /\ cpc'[a] = "done" /\ cres'[a] = "community_ban"
                    /\ community_follower' = community_follower
            /\ (cpc[a] = "fc_follow"
                  /\ FollowerCount(call[a].community, call[a].person) = 0)
                 => /\ cpc'[a] = "done" /\ cres'[a] = "ok"
                    /\ community_follower'[<<call[a].community,
                                             call[a].person, FALSE>>] = 1
                    /\ community_follower'[<<call[a].community,
                                             call[a].person, TRUE>>] = 0]_vars

\* a person who was no follower followed the local community
C27_Witness ==
  \E a \in Calls :
    /\ FollowRequest(a, TRUE) /\ cpc[a] = "done" /\ cres[a] = "ok"
    /\ community_follower[<<call[a].community, call[a].person, FALSE>>] = 1
    /\ FollowerCount(call[a].community, call[a].person) = 1

C29_RepeatFollowSucceeds ==
  \A a \in Calls :
    (/\ FollowRequest(a, TRUE) /\ cpc[a] = "done"
     /\ ~ is_banned(call[a].person, call[a].community))
      => cres[a] = "ok"

\* --------------------------------------------------- aggregates by themselves
\* the persons have rows; no post, like or comment yet
InitAgg ==
  /\ InitIdle
  /\ person = Persons
  /\ site_banned = {}
  /\ community_person_ban = {}
  /\ community = [c \in CommunityIds |->
                    IF c = 1
                      THEN [exists |-> TRUE, local |-> TRUE, creator_id |-> 2]
                      ELSE NoCommunity]
  /\ community_moderator = {<<1, 2>>}
  /\ community_follower = [r \in FollowerRows |-> 0]
  /\ InitAdmin

NextAgg ==
  \/ \E o \in PostIds, p \in Persons : Post_create(o, p)
  \/ \E o \in PostIds, p \in Persons, sc \in Scores : PostLike_like(o, p, sc)
  \/ \E o \in PostIds, p \in Persons : PostLike_remove(p, o)
  \/ \E c \in CommentIds, o \in PostIds, parent \in CommentIds \cup {0},
          p \in Persons : Comment_create(c, o, parent, p)
  \/ \E c \in CommentIds : Comment_delete(c)
  \/ \E c \in CommentIds, p \in Persons, sc \in Scores :
       CommentLike_like(c, p, sc)
  \/ \E c \in CommentIds, p \in Persons : CommentLike_remove(p, c)
  \/ \E o \in PostIds : Post_delete(o)
  \/ \E q \in Persons : Person_delete(q)

SpecAgg == InitAgg /\ [][NextAgg]_vars

\* the recount of the likes of post o with score sc, and of its comments
LikeCount(o, sc) == Cardinality({p \in Persons : post_like[<<o, p>>] = sc})
CommentCount(o) ==
  Cardinality({c \in CommentIds : comment[c].exists /\ comment[c].post_id = o})

PostsOf(q) == {o \in PostIds : post[o].exists /\ post[o].creator_id = q}
CommentsOf(q) ==
  {c \in CommentIds : comment[c].exists /\ comment[c].creator_id = q}

\* the recount of the tables for person q
PersonRecount(q) ==
  [exists |-> TRUE,
   post_count |-> Cardinality(PostsOf(q)),
   post_score |-> ScoreSum(PostsOf(q) \X Persons, post_like),
   comment_count |-> Cardinality(CommentsOf(q)),
   comment_score |-> ScoreSum(CommentsOf(q) \X Persons, comment_like)]

Returns(a, r) == cpc[a] # "done" /\ cpc'[a] = "done" /\ cres'[a] = r

C33_DuplicateActorIdRejected ==
  [][\A a \in Calls :
       ( /\ call[a].op = "CreateCommunity"
         /\ cpc[a] \in {"cc_dupe", "cc_create"} /\ cpc'[a] # cpc[a]
         /\ community[call[a].community].exists )
       => /\ Returns(a, "community_already_exists")
          /\ UNCHANGED <<community, community_moderator,
                         community_follower>>]_vars

\* two requests for the same name: one has inserted the community, the
\* other passed the duplicate check before that and was then turned down at
\* its insert, while the first is not done yet
C33_Witness ==
  \E a1, a2 \in Calls :
    /\ a1 # a2
    /\ call[a1].op = "CreateCommunity" /\ call[a2].op = "CreateCommunity"
    /\ call[a1].community = call[a2].community
    /\ cpc[a1] \in {"cc_join", "cc_follow"}
    /\ cpc[a2] = "done" /\ cres[a2] = "community_already_exists"
    /\ community[call[a1].community].exists
    /\ <<call[a1].community, call[a1].person>> \notin community_moderator

\* ---------------------------------------------------- TransferCommunity alone
\* Community 1 is local and has moderators in some order, the first of
\* them its creator; a site may exist, made by person 1, who is the admin.
InitTransfer ==
  /\ InitIdle
  /\ person = Persons
  /\ site_banned = {}
  /\ community_person_ban = {}
  /\ community_follower = [r \in FollowerRows |-> 0]
  /\ admins = {1}
  /\ site \in {<<>>, <<1>>}
  /\ \E q \in OrdersOf(Members) :
       /\ q # <<>>
       /\ moderator_order = [c \in CommunityIds |-> IF c = 1 THEN q ELSE <<>>]
       /\ community_moderator = {<<1, q[i]>> : i \in DOMAIN q}
       /\ community = [c \in CommunityIds |->
                         IF c = 1
                           THEN [exists |-> TRUE, local |-> TRUE,
                                 creator_id |-> q[1]]
                           ELSE NoCommunity]

NextTransfer ==
  \/ \E a \in Calls, c \in TransferCalls : TransferCommunity_Perform(a, c)
  \/ \E a \in Calls : TransferCommunity_Read(a)
  \/ \E a \in Calls : TransferCommunity_Site(a)
  \/ \E a \in Calls : TransferCommunity_Auth(a)
  \/ \E a \in Calls : TransferCommunity_UpdateCreator(a)
  \/ \E a \in Calls : TransferCommunity_Mods(a)
  \/ \E a \in Calls : TransferCommunity_Delete(a)
  \/ \E a \in Calls : TransferCommunity_Join(a)
  \/ \E a \in Calls : TransferCommunity_View(a)

SpecTransfer == InitTransfer /\ [][NextTransfer]_vars

\* C34: when TransferCommunity to person P returns Ok, the creator of the
\* community is P, and its moderator list is the list of before the call
\* with P, who was in it, moved to the front: the same moderators, the
\* others in the order they had.
C34_TransferReorders ==
  [][\A a \in Calls :
       (call[a].op = "TransferCommunity" /\ Returns(a, "ok")) =>
         /\ community'[call[a].community].creator_id = call[a].target
         /\ call[a].target \in Range(at_start[a].mods)
         /\ moderator_order'[call[a].community] =
              <<call[a].target>> \o Without(at_start[a].mods, call[a].target)
         /\ community_moderator' =
              {<<call[a].community, p>> : p \in Range(at_start[a].mods)}]_vars

\* a transfer to the last of three moderators returned Ok
C34_Witness ==
  \E a \in Calls :
    /\ cpc[a] = "done" /\ cres[a] = "ok"
    /\ call[a].op = "TransferCommunity"
    /\ Len(at_start[a].mods) = 3
    /\ at_start[a].mods[3] = call[a].target
    /\ moderator_order[call[a].community][1] = call[a].target
    /\ community[call[a].community].creator_id = call[a].target

\* C37: when TransferCommunity returns an error, the creator_id of the
\* community and its moderator list are what they were before the call.
C37_FailedTransferChangesNothing ==
  [][\A a \in Calls :
       ( /\ call[a].op = "TransferCommunity"
         /\ cpc[a] # "done" /\ cpc'[a] = "done" /\ cres'[a] # "ok" )
       => /\ community'[call[a].community].creator_id = at_start[a].creator
          /\ moderator_order'[call[a].community] = at_start[a].mods]_vars

\* ----------------------------------------------------- BanFromCommunity alone
\* the requests of the moderator of community 1
BanCalls ==
  [op : {"BanFromCommunity"}, person : LocalPersons, community : {1},
   target : Persons, flag : BOOLEAN]

\* Community 1 is local with person 2 its creator and moderator; any person
\* may follow it, with a row that is pending or not, and may be banned
\* from it.
InitBan ==
  /\ InitIdle
  /\ person = Persons
  /\ site_banned = {}
  /\ community_person_ban \in SUBSET ({1} \X Persons)
  /\ community = [c \in CommunityIds |->
                    IF c = 1
                      THEN [exists |-> TRUE, local |-> TRUE, creator_id |-> 2]
                      ELSE NoCommunity]
  /\ community_moderator = {<<1, 2>>}
  /\ community_follower \in [FollowerRows -> {0, 1}]
  /\ \A r \in FollowerRows : community_follower[r] = 1 => r[1] = 1
  /\ \A p \in Persons : FollowerCount(1, p) <= 1
  /\ InitAdmin

NextBan ==
  \/ \E a \in Calls, c \in BanCalls : PerformAlone(a, c)
  \/ \E a \in Calls : BanFromCommunity_Auth(a)
  \/ \E a \in Calls : BanFromCommunity_Ban(a)
  \/ \E a \in Calls : BanFromCommunity_Unfollow(a)
  \/ \E a \in Calls : BanFromCommunity_Unban(a)

SpecBan == InitBan /\ [][NextBan]_vars

\* C35: when BanFromCommunity with ban = true for community C and person P
\* returns Ok, there is a ban row for (C, P) and no Follower Relation for
\* (C, P); when it returns Ok with ban = false there is no ban row for
\* (C, P), and no step of such a call changes a Follower Relation.
C35_BanUnfollowsUnbanDoesNot ==
  [][\A a \in Calls :
       call[a].op = "BanFromCommunity" =>
         /\ (call[a].flag /\ Returns(a, "ok")) =>
              /\ <<call[a].community, call[a].target>>
                   \in community_person_ban'
              /\ \A pending \in BOOLEAN :
                   community_follower'[<<call[a].community, call[a].target,
                                         pending>>] = 0
         /\ (~ call[a].flag /\ Returns(a, "ok")) =>
              <<call[a].community, call[a].target>>
                \notin community_person_ban'
         /\ (~ call[a].flag /\ cpc'[a] # cpc[a]) =>
              community_follower' = community_follower]_vars

\* a ban returned Ok: the banned person has the ban row and follows no
\* more, the other person still follows; and an unban returned Ok for a
\* person who follows
C35_Witness ==
  \E a1, a2 \in Calls :
    /\ cres[a1] = "ok" /\ cres[a2] = "ok"
    /\ call[a1].op = "BanFromCommunity" /\ call[a1].flag
    /\ call[a2].op = "BanFromCommunity" /\ ~ call[a2].flag
    /\ call[a1].target # call[a2].target
    /\ <<1, call[a1].target>> \in community_person_ban
    /\ FollowerCount(1, call[a1].target) = 0
    /\ <<1, call[a2].target>> \notin community_person_ban
    /\ FollowerCount(1, call[a2].target) = 1

\* ------------------------------------------------------------ CreateSite alone
\* a node without a site: person 1 is an admin, and person 2 may be one
InitSite ==
  /\ InitIdle
  /\ person = Persons
  /\ site_banned = {}
  /\ community_person_ban = {}
  /\ community = [c \in CommunityIds |-> NoCommunity]
  /\ community_moderator = {}
  /\ community_follower = [r \in FollowerRows |-> 0]
  /\ moderator_order = [c \in CommunityIds |-> <<>>]
  /\ site = <<>>
  /\ admins \in {{1}, {1, 2}}

NextSite ==
  \/ \E a \in Calls, c \in SiteCalls : Perform(a, c)
  \/ \E a \in Calls : CreateSite_Read(a)
  \/ \E a \in Calls : CreateSite_Auth(a)
  \/ \E a \in Calls : CreateSite_Create(a)
  \/ \E a \in Calls : CreateSite_View(a)

SpecSite == InitSite /\ [][NextSite]_vars

\* C36: there is at most one site row in every reachable state, also when
\* two CreateSite requests both read 'no site' before either creates.
C36_AtMostOneSite == Len(site) <= 1

\* ------------------------------------------------------- ban against follow
\* C38: in every reachable state, whatever BanFromCommunity and
\* FollowCommunity calls and inbound Follow deliveries have run or are
\* running, no person has a ban row and a Follower Relation for the same
\* community.
C38_BannedNeverFollows ==
  \A c \in CommunityIds, p \in Persons :
    is_banned(p, c) => FollowerCount(c, p) = 0

\* ------------------------------------------- Follow and Undo of the banned
\* Community 1 is local; the remote persons have rows; each of them may
\* follow the community already, and at most one of them is banned, from the
\* site or from the community (a ban of the site leaves the follower rows).
InitBannedFollow ==
  /\ InitIdle
  /\ person = Persons
  /\ site_banned \in SUBSET RemotePersons
  /\ community_person_ban \in SUBSET ({1} \X RemotePersons)
  /\ Cardinality(site_banned) + Cardinality(community_person_ban) <= 1
  /\ community = [c \in CommunityIds |->
                    IF c = 1
                      THEN [exists |-> TRUE, local |-> TRUE, creator_id |-> 2]
                      ELSE NoCommunity]
  /\ community_moderator = {<<1, 2>>}
  /\ \E followers \in SUBSET RemotePersons :
       community_follower =
         [r \in FollowerRows |->
            IF r[1] = 1 /\ r[2] \in followers \cup {2} /\ ~ r[3] THEN 1 ELSE 0]
  /\ InitAdmin

NextBannedFollow ==
  \/ \E d \in Deliveries, id \in ActivityIds, e \in FollowEnvelopes :
       \E p \in CommunityIds : InboxOf(e, p) /\ Deliver(d, id, e, TRUE, p)
  \/ \E d \in Deliveries : inbox_verify_http_signature(d)
  \/ \E d \in Deliveries : CheckAlreadyKnown(d)
  \/ \E d \in Deliveries : CheckAddressing(d)
  \/ \E d \in Deliveries : InsertActivity(d)
  \/ \E d \in Deliveries : ReadPerson(d)
  \/ \E d \in Deliveries : CheckBanAndDispatch(d)
  \/ \E d \in Deliveries : HandleFollow(d)
  \/ \E d \in Deliveries : SendAcceptFollow(d)
  \/ \E d \in Deliveries : UndoReadPerson(d)
  \/ \E d \in Deliveries : HandleUndoFollow(d)

SpecBannedFollow == InitBannedFollow /\ [][NextBannedFollow]_vars

\* C39: the ban check comes before the dispatch for a Follow and for an
\* Undo(Follow) too: no step of such a delivery of a person banned from the
\* site or from the community creates or removes a Follower Relation of the
\* person and the community or sends an Accept.
C39_BannedFollowStopped ==
  [][\A d \in Deliveries :
       (IsFollowOrUndoFollow(d) /\ Banned(d)) =>
         /\ effects'[d] \cap {"follow", "unfollow", "accept"} = {}
         /\ \A pending \in BOOLEAN :
              community_follower'[<<path[d], Env(d).actor, pending>>]
                = community_follower[<<path[d], Env(d).actor, pending>>]
         /\ accepts'[act[d]] = 0]_vars

\* the Undo(Follow) of a person banned from the community, who follows it,
\* was stopped at the ban check and the Follower Relation is still there
C39_Witness ==
  \E d \in Deliveries :
    /\ pc[d] = "done" /\ err[d] = "ActorBanned"
    /\ Env(d).kind = "Undo" /\ Env(d).inner = "Follow"
    /\ is_banned(Env(d).actor, path[d])
    /\ "dedup" \in effects[d]
    /\ FollowerCount(path[d], Env(d).actor) = 1

====
